---- MODULE Spec2Model ----
(***************************************************************************)
(* Model of the event / SDK core of the billing back-office:               *)
(*   - EventResult and its combinator          (events/domain.py)          *)
(*   - EnhancedEventDispatcher                 (events/core/dispatcher.py) *)
(*   - BaseSDKAdapter._with_idempotency/_with_retry and the                *)
(*     IdempotencyService cache                (sdk/base.py,               *)
(*                                              sdk/idempotency_service.py)*)
(* Python strings are TLA+ strings, Optional[T] is None or Some(x).        *)
(***************************************************************************)
EXTENDS Integers, Sequences, FiniteSets, TLC

VARIABLES
    handlers,     \* EnhancedEventDispatcher._handlers: event name -> list of <<priority, handler>>
    event,        \* the Event object handed to dispatch: [name, stopped]
    pc,           \* position of the dispatch call: "idle", "loop", "done"
    idx,          \* position of the for-loop in the handler list (1-based)
    results,      \* local list `results` of dispatch
    calls,        \* invocations of handler methods made by the running dispatch
    ret,          \* outcome of dispatch: NoOutcome while running, else a return or a raise
    cin,          \* argument of a call of EventResult.combine
    cout,         \* value returned by the last call of EventResult.combine
    cache,        \* the Redis store behind IdempotencyService: redis key -> [value, ttl]
    invocations,  \* number of times the wrapped operation of _with_idempotency has run
    ipc,          \* per caller: position inside _with_idempotency
    ikey,         \* per caller: the idempotency_key argument
    isvc,         \* per caller: whether the adapter used has an idempotency service
    iresp,        \* per caller: the local `response`
    iret,         \* per caller: outcome of _with_idempotency
    config,       \* the adapter's SDKConfig
    rpc,          \* position inside _with_retry
    retries,      \* local `retries` of _with_retry
    attempt,      \* loop variable `attempt` of _with_retry
    last_error,   \* local `last_error` of _with_retry
    outcomes,     \* what the operation did on each invocation made by _with_retry
    sleeps,       \* the time.sleep calls made by _with_retry, in milliseconds
    rret,         \* outcome of _with_retry
    whandlers,    \* WebhookService._handlers: provider -> handler object
    wsecrets,     \* WebhookService._secrets: provider -> signing secret
    wpc,          \* position inside WebhookService.process
    wprovider,    \* argument provider of process
    wpayload,     \* argument payload of process (raw bytes)
    wsignature,   \* argument signature of process
    wdata,        \* local data of process: the parsed JSON document
    wevent,       \* local event of process: what parse_event returned
    wcalls,       \* the stages run by the current call of process, in order
    wret,         \* outcome of process
    kin,          \* the arguments of two calls of IdempotencyService.generate_key
    kout,         \* the keys the two calls returned
    regOrder,     \* history: the registered handlers in the order of their register calls
    subscriptions,\* the subscription table: id (position) -> Subscription row
    now,          \* datetime.utcnow(), in days
    slog,         \* history: the last subscription operation and the statuses before it
    sret,         \* outcome of the last SubscriptionService call
    dhandlers,    \* DomainEventDispatcher._handlers: event name -> list of handlers
    eevent,       \* the event passed to emit
    epc,          \* where emit is: idle, loop, done
    eidx,         \* position of emit's loop in the handler list
    eresults,     \* emit's local list of results
    ecalls,       \* history: the handler methods emit has invoked
    eret,         \* outcome of emit
    behaviour,    \* what each handler invoked so far does with the event
    lkey,         \* the redis key lock:<key>: None or the token of its holder
    lcount,       \* tokens issued so far
    lpc,          \* where each process is in its with-block: idle, acquire, body, finally, done
    lbt,          \* blocking_timeout of each process's call
    ltoken,       \* lock.local.token of each process's Lock object
    acquired,     \* the local acquired of each call
    lyield,       \* what the context manager yielded
    lbody,        \* how the body of the with-block ended
    lwaited,      \* history: the call slept waiting for the lock
    lrelease,     \* history: what the release in the finally clause found
    lret,         \* outcome of the with-statement
    rowExists,    \* the entity's row is in the table
    stored,       \* the version column of the row
    svpc,         \* where each writer is: idle, loaded, commit, done
    wver,         \* version of the entity object in each writer's session
    expected,     \* expected_version of each writer's save
    svret,        \* outcome of each writer's save
    plugins,      \* PluginManager._plugins: the names registered
    pstatus,      \* the _status of each plugin object
    plog          \* history: the last PluginManager operation, the statuses before it, hook and event

dispVars == <<handlers, event, pc, idx, results, calls, ret>>
combVars == <<cin, cout>>
idemVars == <<cache, invocations, ipc, ikey, isvc, iresp, iret>>
retryVars == <<config, rpc, retries, attempt, last_error, outcomes, sleeps, rret>>
webVars == <<whandlers, wsecrets, wpc, wprovider, wpayload, wsignature, wdata, wevent, wcalls, wret>>
keyVars == <<kin, kout>>
orderVars == <<regOrder>>
subVars == <<subscriptions, now, slog, sret>>
emitVars == <<dhandlers, eevent, epc, eidx, eresults, ecalls, eret, behaviour>>
lockVars == <<lkey, lcount, lpc, lbt, ltoken, acquired, lyield, lbody, lwaited, lrelease, lret>>
saveVars == <<rowExists, stored, svpc, wver, expected, svret>>
plugVars == <<plugins, pstatus, plog>>

-----------------------------------------------------------------------------
(* Optional values.                                                        *)
None == <<>>
Some(x) == <<x>>

(* Python truthiness of an Optional[str]: None and "" are falsy.           *)
Truthy(opt) == opt # None /\ opt[1] # ""

(* s contains m as a substring (Python `m in s`).                          *)
Contains(s, m) == \E i \in 0..(Len(s) - Len(m)) : SubSeq(s, i + 1, i + Len(m)) = m

-----------------------------------------------------------------------------
(* Bounds of the model.                                                    *)
NumHandlers == 5       \* handler objects that exist
MaxRegistered == 3     \* registrations held by the dispatcher at one time
MaxLen == 3            \* length of the list handed to combine
NumCallers == 2        \* callers of _with_idempotency
MaxInvocations == 3    \* invocations of the operation wrapped by _with_idempotency
MaxRetriesArg == 3     \* largest max_retries argument handed to _with_retry
MaxHandledEvents == 1  \* events a MockWebhookHandler object records
MaxKeyArgs == 2        \* values handed to generate_key after provider and operation
NumSubscriptions == 1  \* rows of the subscription table
MaxDays == 400         \* the last day the clock reaches
NumLockers == 2        \* processes that use the lock
MaxLockCalls == 3      \* with-blocks entered in one behaviour
NumWriters == 2        \* sessions that save the entity
MaxVersion == 3        \* the highest version a row reaches
NumPlugins == 3        \* plugin objects that exist
DaysPerTick == MaxDays \* days between two looks at the clock

-----------------------------------------------------------------------------
(* EventResult (events/domain.py).                                         *)
EventResult(success, data, error, error_type) ==
    [success |-> success, data |-> data, error |-> error, error_type |-> error_type]

success_result(data) == EventResult(TRUE, data, None, None)

error_result(error, error_type) == EventResult(FALSE, None, Some(error), Some(error_type))

no_handler == EventResult(FALSE, None, Some("No handler registered for event"), Some("no_handler"))

(* Mutant of Join: the separator is dropped.                               *)
RECURSIVE Join_NoSeparator(_, _)
Join_NoSeparator(sep, strs) ==
    IF strs = <<>> THEN ""
    ELSE strs[1] \o Join_NoSeparator(sep, Tail(strs))

(* sep.join(strs)                                                          *)
RECURSIVE Join(_, _)
Join(sep, strs) ==
    IF strs = <<>> THEN ""
    ELSE IF Len(strs) = 1 THEN strs[1]
         ELSE strs[1] \o sep \o Join(sep, Tail(strs))

IsFailed(r) == ~r.success
HasError(r) == Truthy(r.error)
(* Mutant of HasData: `if r.data` instead of `if r.data is not None`.       *)
HasData_Truthy(r) == Truthy(r.data)

HasData(r) == r.data # None

combine(rs) ==
    IF rs = <<>> THEN success_result(None)
    ELSE LET failed == SelectSeq(rs, IsFailed) IN
         IF failed # <<>>
         THEN LET errs == SelectSeq(failed, HasError)
                  errors == [i \in 1..Len(errs) |-> errs[i].error[1]]
                  error_type == IF Truthy(failed[1].error_type)
                                THEN failed[1].error_type[1]
                                ELSE "handler_error"
              IN error_result(Join("; ", errors), error_type)
         ELSE LET kept == SelectSeq(rs, HasData)
                  data == [i \in 1..Len(kept) |-> kept[i].data[1]]
              IN success_result(Some(data))

-----------------------------------------------------------------------------
(* Handlers (events/core/handler.py).                                      *)
HIGHEST == 100
HIGH == 75
NORMAL == 50
LOW == 25
LOWEST == 0

Handlers == 1..NumHandlers
EventNames == {"test.event", "other.event"}

(* get_handled_event_class() and get_priority() are static per handler     *)
(* class: handlers 1..4 handle "test.event" with priorities LOW, HIGH,     *)
(* NORMAL, NORMAL; handler 5 handles "other.event".                        *)
get_handled_event_class(h) == IF h % 5 = 0 THEN "other.event" ELSE "test.event"

get_priority(h) ==
    CASE h % 5 = 1 -> LOW
      [] h % 5 = 2 -> HIGH
      [] h % 5 = 3 -> NORMAL
      [] h % 5 = 4 -> NORMAL
      [] OTHER     -> HIGHEST

(* What a handler may do when one of its methods is invoked.  The          *)
(* exceptions raised are subclasses of Exception.                          *)
ExceptionClasses ==
    {"ValueError", "RuntimeError", "TypeError", "AttributeError", "InvalidOperation",
     "TransientError", "JSONDecodeError", "UnicodeDecodeError"}
Raises == {[cls |-> "ValueError", msg |-> "boom"], [cls |-> "RuntimeError", msg |-> ""]}
Returns == {success_result(None), success_result(Some("d1")),
            error_result("e1", "handler_error")}

(* Mutant of CaughtByExceptException: nothing is caught.                    *)
CaughtByExceptException_Nothing(cls) == FALSE

(* Mutant of CaughtByExceptException: `except ValueError`.                  *)
CaughtByExceptException_OnlyValueError(cls) == cls = "ValueError"

(* `except Exception` catches every subclass of Exception.                 *)
CaughtByExceptException(cls) == cls \in ExceptionClasses

(* str(e) of an exception built with one message argument.                *)
str(e) == e.msg

(* Outcome of a call as its caller sees it.                                *)
NoOutcome == [kind |-> "none"]
Return(v) == [kind |-> "return", value |-> v]
Raise(e) == [kind |-> "raise", exc |-> e]

-----------------------------------------------------------------------------
(* Event (events/core/base.py).                                            *)
Event(name) == [name |-> name, stopped |-> FALSE]

stop_propagation(e) == [e EXCEPT !.stopped = TRUE]

(* Mutant of is_propagation_stopped: the flag is read upside down.          *)
is_propagation_stopped_Inverted(e) == ~e.stopped

(* Mutant of is_propagation_stopped: the flag is never seen.                *)
is_propagation_stopped_Never(e) == FALSE

is_propagation_stopped(e) == e.stopped

-----------------------------------------------------------------------------
(* EnhancedEventDispatcher (events/core/dispatcher.py).  The dispatcher is *)
(* built with the default context=None, so register injects no context.    *)

(* Mutant of SortByPriority: the list is left in registration order.       *)
SortByPriority_Unsorted(s) == s

(* Mutant of InsertByPriority: the new element goes before its equals.      *)
InsertByPriority_BeforeEquals(x, s) ==
    LET k == Cardinality({i \in 1..Len(s) : s[i][1] > x[1]})
    IN SubSeq(s, 1, k) \o <<x>> \o SubSeq(s, k + 1, Len(s))
(* list.sort(key=lambda x: x[0], reverse=True): stable, descending by the   *)
(* priority; the new element goes behind the entries that are not smaller.  *)
InsertByPriority(x, s) ==
    LET k == Cardinality({i \in 1..Len(s) : s[i][1] >= x[1]})
    IN SubSeq(s, 1, k) \o <<x>> \o SubSeq(s, k + 1, Len(s))

RECURSIVE SortByPriority(_)
SortByPriority(s) ==
    IF s = <<>> THEN <<>>
    ELSE InsertByPriority(s[Len(s)], SortByPriority(SubSeq(s, 1, Len(s) - 1)))

HandlerList(name) == IF name \in DOMAIN handlers THEN handlers[name] ELSE <<>>

Registered == {h \in Handlers : \E n \in DOMAIN handlers : \E i \in 1..Len(handlers[n]) :
                                   handlers[n][i][2] = h}

Register(h) ==
    /\ pc = "idle"
    /\ h \notin Registered
    /\ Cardinality(Registered) < MaxRegistered
    /\ LET event_class == get_handled_event_class(h)
           priority == get_priority(h)
       IN handlers' = [n \in DOMAIN handlers \cup {event_class} |->
                          IF n = event_class
                          THEN SortByPriority(Append(HandlerList(n), <<priority, h>>))
                          ELSE handlers[n]]
    /\ UNCHANGED <<event, pc, idx, results, calls, ret>>

IsNot(h, entry) == entry[2] # h

Unregister(h) ==
    /\ pc = "idle"
    /\ LET event_class == get_handled_event_class(h)
           Keep(entry) == IsNot(h, entry)
       IN handlers' = IF event_class \in DOMAIN handlers
                      THEN [handlers EXCEPT ![event_class] = SelectSeq(@, Keep)]
                      ELSE handlers
    /\ UNCHANGED <<event, pc, idx, results, calls, ret>>

has_handlers(event_name) == event_name \in DOMAIN handlers /\ Len(handlers[event_name]) > 0

(* dispatch, lines 91-94: the lookup of event.name and the empty list.      *)
DispatchBegin(e) ==
    /\ pc = "idle"
    /\ event' = e
    /\ results' = <<>>
    /\ calls' = <<>>
    /\ IF e.name \notin DOMAIN handlers
       THEN pc' = "done" /\ idx' = 0 /\ ret' = Return(no_handler)
       ELSE pc' = "loop" /\ idx' = 1 /\ ret' = NoOutcome
    /\ UNCHANGED handlers

InLoop == pc = "loop" /\ idx <= Len(handlers[event.name])

Current == handlers[event.name][idx][2]

Call(h, op, out, msg) == [h |-> h, op |-> op, out |-> out, msg |-> msg]

(* Mutant of AfterLoop: the empty result list is not checked.               *)
AfterLoop_NoEmptyCheck ==
    /\ ret' = Return(combine(results))
    /\ pc' = "done"

(* lines 111-114: what follows the loop.                                   *)
AfterLoop ==
    /\ ret' = Return(IF results = <<>> THEN no_handler ELSE combine(results))
    /\ pc' = "done"

(* lines 97-99: the check of the propagation flag at the top of the body.   *)
DispatchBreak ==
    /\ InLoop
    /\ is_propagation_stopped(event)
    /\ AfterLoop
    /\ UNCHANGED <<handlers, event, idx, results, calls>>

DispatchExhausted ==
    /\ pc = "loop"
    /\ idx > Len(handlers[event.name])
    /\ AfterLoop
    /\ UNCHANGED <<handlers, event, idx, results, calls>>

(* lines 101-109: an exception raised inside the try block.                *)
OnException(e) ==
    IF CaughtByExceptException(e.cls)
    THEN /\ results' = Append(results, error_result(str(e), "handler_exception"))
         /\ idx' = idx + 1
         /\ UNCHANGED <<pc, ret>>
    ELSE /\ ret' = Raise(e)
         /\ pc' = "done"
         /\ UNCHANGED <<results, idx>>

(* can_handle returns False: the handler is skipped.                       *)
HandlerSkipped ==
    /\ InLoop
    /\ ~is_propagation_stopped(event)
    /\ calls' = Append(calls, Call(Current, "can_handle", "false", None))
    /\ idx' = idx + 1
    /\ UNCHANGED <<handlers, event, pc, results, ret>>

(* can_handle raises.                                                      *)
CanHandleRaises(e) ==
    /\ InLoop
    /\ ~is_propagation_stopped(event)
    /\ calls' = Append(calls, Call(Current, "can_handle", "raise", Some(str(e))))
    /\ OnException(e)
    /\ UNCHANGED <<handlers, event>>

(* can_handle returns True and handle returns r; the handler may call      *)
(* event.stop_propagation() on the way.                                    *)
HandlerReturns(r, stop) ==
    /\ InLoop
    /\ ~is_propagation_stopped(event)
    /\ calls' = calls \o <<Call(Current, "can_handle", "true", None),
                           Call(Current, "handle", "return", None)>>
    /\ event' = IF stop THEN stop_propagation(event) ELSE event
    /\ results' = Append(results, r)
    /\ idx' = idx + 1
    /\ UNCHANGED <<handlers, pc, ret>>

(* can_handle returns True and handle raises e.                            *)
HandlerRaises(e, stop) ==
    /\ InLoop
    /\ ~is_propagation_stopped(event)
    /\ calls' = calls \o <<Call(Current, "can_handle", "true", None),
                           Call(Current, "handle", "raise", Some(str(e)))>>
    /\ event' = IF stop THEN stop_propagation(event) ELSE event
    /\ OnException(e)
    /\ UNCHANGED handlers

(* dispatch has returned to its caller; its locals are gone.               *)
DispatchReturn ==
    /\ pc = "done"
    /\ pc' = "idle"
    /\ idx' = 0
    /\ results' = <<>>
    /\ calls' = <<>>
    /\ ret' = NoOutcome
    /\ UNCHANGED <<handlers, event>>

InitDispatch ==
    /\ handlers = <<>>
    /\ event = Event("test.event")
    /\ pc = "idle"
    /\ idx = 0
    /\ results = <<>>
    /\ calls = <<>>
    /\ ret = NoOutcome

-----------------------------------------------------------------------------
(* Calls of EventResult.combine on arbitrary lists of results.             *)
ResultValues ==
    {success_result(None), success_result(Some("")), success_result(Some("d1")),
     success_result(Some("d2")),
     EventResult(FALSE, None, None, None),
     error_result("e1", "handler_error"),
     error_result("e2", "validation_error"),
     error_result("", "handler_exception"),
     EventResult(FALSE, Some("d9"), Some("e3"), Some(""))}

ResultLists == UNION {[1..n -> ResultValues] : n \in 0..MaxLen}

(* combine is called with the list cin and returns.                         *)
CombineApply ==
    /\ cout = NoOutcome
    /\ cout' = Return(combine(cin))
    /\ UNCHANGED cin

InitCombine ==
    /\ cin = <<>>
    /\ cout = NoOutcome

(* A caller holds any list of results and has not called combine yet.       *)
InitCombineInputs ==
    /\ cin \in ResultLists
    /\ cout = NoOutcome

-----------------------------------------------------------------------------
(* SDKResponse (sdk/interface.py).  A data dict is a set of <<key, value>>  *)
(* pairs; a value carries the Python type it has.                           *)
SDKResponse(success, data, error, error_code) ==
    [success |-> success, data |-> data, error |-> error, error_code |-> error_code]

to_dict(response) == response

PyValue(tag, v) == [tag |-> tag, v |-> v]

(* json.dumps followed by json.loads: a tuple comes back as a list, str and *)
(* int come back unchanged.                                                 *)
JsonValue(x) == IF x.tag = "tuple" THEN PyValue("list", x.v) ELSE x

JsonDict(d) == {<<kv[1], JsonValue(kv[2])>> : kv \in d}

(* json.dumps raises TypeError on a Decimal.                                *)
JsonSerializable(d) == \A kv \in d : kv[2].tag # "decimal"

json_roundtrip(payload) == [payload EXCEPT !.data = JsonDict(@)]

(* IdempotencyService (sdk/idempotency_service.py).                         *)
DEFAULT_TTL == 86400

IdemKeys == {"k1", "k2"}
KeyArgs == {None, Some("")} \cup {Some(k) : k \in IdemKeys}

RedisKey(key) == "idempotency:" \o key

(* check: redis.get and json.loads; None when the key is absent.            *)
check(key) ==
    IF RedisKey(key) \in DOMAIN cache THEN Some(cache[RedisKey(key)].value) ELSE None

(* store: redis.setex(key, ttl or DEFAULT_TTL, json.dumps(response)).       *)
store(key, response, ttl) ==
    [k \in DOMAIN cache \cup {RedisKey(key)} |->
        IF k = RedisKey(key)
        THEN [value |-> json_roundtrip(response),
              ttl |-> IF ttl # None /\ ttl[1] # 0 THEN ttl[1] ELSE DEFAULT_TTL]
        ELSE cache[k]]

Without(rk) == [k \in DOMAIN cache \ {rk} |-> cache[k]]

(* Redis drops an entry whose TTL has run out.                             *)
Expire(key) ==
    /\ RedisKey(key) \in DOMAIN cache
    /\ cache' = Without(RedisKey(key))
    /\ UNCHANGED <<invocations, ipc, ikey, isvc, iresp, iret>>

-----------------------------------------------------------------------------
(* BaseSDKAdapter._with_idempotency (sdk/base.py).                          *)
Callers == 1..NumCallers

(* What the wrapped operation may do on its n-th invocation: return a       *)
(* successful response naming a fresh payment intent, return a failed       *)
(* response, or raise.                                                      *)
OperationOutcomes(n) ==
    {Return(SDKResponse(TRUE, {<<"payment_intent_id", PyValue(tag, n)>>}, None, None)) :
        tag \in {"int", "tuple", "decimal"}}
    \cup {Return(SDKResponse(FALSE, {}, Some("Failed"), Some("mock_error"))),
          Raise([cls |-> "TransientError", msg |-> "Temporary failure", seq |-> n])}

(* `if not idempotency_key or not self._idempotency`                        *)
SkipsIdempotency(key, svc) == ~Truthy(key) \/ ~svc

(* Mutant of IsCached: the cached response is ignored.                      *)
IsCached_Never(cached) == FALSE

(* `if cached:` on the dict returned by check.                              *)
IsCached(cached) == cached # None

FromCached(cached) ==
    SDKResponse(cached.success, cached.data, cached.error, cached.error_code)

(* lines 64-76: up to the return of a cached response.                     *)
IdemBegin(p, key, svc) ==
    /\ ipc[p] = "idle"
    /\ ikey' = [ikey EXCEPT ![p] = key]
    /\ isvc' = [isvc EXCEPT ![p] = svc]
    /\ IF ~SkipsIdempotency(key, svc) /\ IsCached(check(key[1]))
       THEN /\ ipc' = [ipc EXCEPT ![p] = "done"]
            /\ iret' = [iret EXCEPT ![p] = Return(FromCached(check(key[1])[1]))]
       ELSE /\ ipc' = [ipc EXCEPT ![p] = "operation"]
            /\ UNCHANGED iret
    /\ UNCHANGED <<cache, invocations, iresp>>

(* lines 66 and 79: operation() runs.                                      *)
IdemOperation(p, out) ==
    /\ ipc[p] = "operation"
    /\ invocations < MaxInvocations
    /\ invocations' = invocations + 1
    /\ IF out.kind = "raise" \/ SkipsIdempotency(ikey[p], isvc[p])
       THEN /\ iret' = [iret EXCEPT ![p] = out]
            /\ ipc' = [ipc EXCEPT ![p] = "done"]
            /\ UNCHANGED iresp
       ELSE /\ iresp' = [iresp EXCEPT ![p] = Some(out.value)]
            /\ ipc' = [ipc EXCEPT ![p] = "store"]
            /\ UNCHANGED iret
    /\ UNCHANGED <<cache, ikey, isvc>>

(* Mutant of ShouldStore: every response is stored.                         *)
ShouldStore_Always(response) == TRUE

(* `if response.success`                                                    *)
ShouldStore(response) == response.success

(* lines 81-85: successful responses are stored, then the response is       *)
(* returned; json.dumps may raise inside store.                             *)
IdemStore(p) ==
    /\ ipc[p] = "store"
    /\ LET response == iresp[p][1] IN
       IF ShouldStore(response)
       THEN IF JsonSerializable(to_dict(response).data)
            THEN /\ cache' = store(ikey[p][1], to_dict(response), None)
                 /\ iret' = [iret EXCEPT ![p] = Return(response)]
            ELSE /\ iret' = [iret EXCEPT ![p] =
                        Raise([cls |-> "TypeError", msg |-> "not JSON serializable", seq |-> 0])]
                 /\ UNCHANGED cache
       ELSE /\ iret' = [iret EXCEPT ![p] = Return(response)]
            /\ UNCHANGED cache
    /\ ipc' = [ipc EXCEPT ![p] = "done"]
    /\ UNCHANGED <<invocations, ikey, isvc, iresp>>

(* _with_idempotency has returned to its caller; its locals are gone.       *)
IdemReturn(p) ==
    /\ ipc[p] = "done"
    /\ ipc' = [ipc EXCEPT ![p] = "idle"]
    /\ ikey' = [ikey EXCEPT ![p] = None]
    /\ isvc' = [isvc EXCEPT ![p] = FALSE]
    /\ iresp' = [iresp EXCEPT ![p] = None]
    /\ iret' = [iret EXCEPT ![p] = NoOutcome]
    /\ UNCHANGED <<cache, invocations>>

(* No other call of _with_idempotency is in progress.                      *)
NoOtherCall(p) == \A q \in Callers \ {p} : ipc[q] = "idle"

InitIdem ==
    /\ cache = <<>>
    /\ invocations = 0
    /\ ipc = [p \in Callers |-> "idle"]
    /\ ikey = [p \in Callers |-> None]
    /\ isvc = [p \in Callers |-> FALSE]
    /\ iresp = [p \in Callers |-> None]
    /\ iret = [p \in Callers |-> NoOutcome]

-----------------------------------------------------------------------------
(* BaseSDKAdapter._with_retry (sdk/base.py).                                *)
DefaultMaxRetries == 3

SDKConfig(max_retries) == [max_retries |-> max_retries]

MaxRetriesValues == -1..MaxRetriesArg

MaxRetriesArgs == {None} \cup {Some(n) : n \in MaxRetriesValues}

(* Mutant of AttemptRange: range(retries).                                  *)
AttemptRange_OffByOne(n) == 0..(n - 1)

(* Mutant of Remember: the first error is kept.                             *)
Remember_First(prev, e) == IF prev = None THEN Some(e) ELSE prev

(* line 113: last_error = e                                                 *)
Remember(prev, e) == Some(e)

(* Mutant of IsTransient: `except Exception`.                               *)
IsTransient_Any(e) == TRUE
(* `except TransientError`                                                  *)
IsTransient(e) == e.cls = "TransientError"

(* range(retries + 1)                                                       *)
AttemptRange(n) == 0..n

(* Mutant of Backoff: a constant pause of 0.1 s.                            *)
Backoff_Constant(a) == 100

(* 0.1 * (2 ** attempt) seconds, in milliseconds.                           *)
Backoff(a) == 100 * 2^a

(* What the operation may do on the invocation of attempt a.                *)
RetryOutcomes(a) ==
    {Return(SDKResponse(TRUE, {<<"payment_intent_id", PyValue("int", a)>>}, None, None)),
     Return(SDKResponse(FALSE, {}, Some("Failed"), Some("mock_error"))),
     Raise([cls |-> "TransientError", msg |-> "Temporary failure", seq |-> a]),
     Raise([cls |-> "ValueError", msg |-> "bad request", seq |-> a])}

(* An adapter is built with SDKConfig(max_retries=n).                       *)
NewAdapter(n) ==
    /\ rpc = "idle"
    /\ config' = SDKConfig(n)
    /\ UNCHANGED <<rpc, retries, attempt, last_error, outcomes, sleeps, rret>>

(* lines 106-107                                                            *)
RetryBegin(max_retries) ==
    /\ rpc = "idle"
    /\ retries' = IF max_retries # None THEN max_retries[1] ELSE config.max_retries
    /\ UNCHANGED config
    /\ last_error' = None
    /\ attempt' = 0
    /\ outcomes' = <<>>
    /\ sleeps' = <<>>
    /\ rret' = NoOutcome
    /\ rpc' = "attempt"

(* lines 110-114: one pass of the loop body up to the sleep.                *)
RetryAttempt(out) ==
    /\ rpc = "attempt"
    /\ attempt \in AttemptRange(retries)
    /\ outcomes' = Append(outcomes, out)
    /\ IF out.kind = "return"
       THEN /\ rret' = out
            /\ rpc' = "done"
            /\ UNCHANGED <<attempt, last_error>>
       ELSE IF IsTransient(out.exc)
            THEN /\ last_error' = Remember(last_error, out.exc)
                 /\ IF attempt < retries
                    THEN rpc' = "sleep" /\ UNCHANGED attempt
                    ELSE rpc' = "attempt" /\ attempt' = attempt + 1
                 /\ UNCHANGED rret
            ELSE /\ rret' = out
                 /\ rpc' = "done"
                 /\ UNCHANGED <<attempt, last_error>>
    /\ UNCHANGED <<config, retries, sleeps>>

(* line 116: the backoff sleep, then the next pass.                         *)
RetrySleep ==
    /\ rpc = "sleep"
    /\ sleeps' = Append(sleeps, Backoff(attempt))
    /\ attempt' = attempt + 1
    /\ rpc' = "attempt"
    /\ UNCHANGED <<config, retries, last_error, outcomes, rret>>

(* line 119: `raise last_error`; raising None is a TypeError.               *)
RetryExhausted ==
    /\ rpc = "attempt"
    /\ attempt \notin AttemptRange(retries)
    /\ rret' = IF last_error # None
               THEN Raise(last_error[1])
               ELSE Raise([cls |-> "TypeError",
                           msg |-> "exceptions must derive from BaseException", seq |-> 0])
    /\ rpc' = "done"
    /\ UNCHANGED <<config, retries, attempt, last_error, outcomes, sleeps>>

(* _with_retry has returned or raised to its caller.                        *)
RetryReturn ==
    /\ rpc = "done"
    /\ rpc' = "idle"
    /\ retries' = 0
    /\ attempt' = 0
    /\ last_error' = None
    /\ outcomes' = <<>>
    /\ sleeps' = <<>>
    /\ rret' = NoOutcome
    /\ UNCHANGED config

InitRetry ==
    /\ config = SDKConfig(DefaultMaxRetries)
    /\ rpc = "idle"
    /\ retries = 0
    /\ attempt = 0
    /\ last_error = None
    /\ outcomes = <<>>
    /\ sleeps = <<>>
    /\ rret = NoOutcome

-----------------------------------------------------------------------------
(* Webhook ingress (webhooks/dto.py, webhooks/enums.py,                     *)
(* webhooks/handlers/mock.py, webhooks/service.py).                         *)

(* WebhookResult(success, message=None, error=None, data={})                *)
WebhookResult(success, message, error) ==
    [success |-> success, message |-> message, error |-> error, data |-> {}]

(* WebhookEventType: member name -> value.                                  *)
WebhookEventType ==
    [PAYMENT_SUCCEEDED      |-> "payment.succeeded",
     PAYMENT_FAILED         |-> "payment.failed",
     SUBSCRIPTION_CREATED   |-> "subscription.created",
     SUBSCRIPTION_UPDATED   |-> "subscription.updated",
     SUBSCRIPTION_CANCELLED |-> "subscription.cancelled",
     REFUND_CREATED         |-> "refund.created",
     DISPUTE_CREATED        |-> "dispute.created",
     UNKNOWN                |-> "unknown"]

(* NormalizedWebhookEvent; subscription_id, user_id and metadata keep their *)
(* defaults in every event built here and are left out.                     *)
NormalizedWebhookEvent(provider, event_id, event_type, pi_id, amount, currency, raw) ==
    [provider |-> provider, event_id |-> event_id, event_type |-> event_type,
     payment_intent_id |-> pi_id, amount |-> amount,
     currency |-> currency, raw_payload |-> raw]

(* JSON documents.  An object is a record of its keys, None for a key that  *)
(* is absent; a number or string value carries its JSON type.               *)
JsonInt(n) == [t |-> "int", int |-> n]
JsonStr(s) == [t |-> "str", str |-> s]
JsonArray == [t |-> "array"]
JsonData(amount, currency, payment_intent_id) ==
    [amount |-> amount, currency |-> currency, payment_intent_id |-> payment_intent_id]
JsonObject(id, type, data) == [t |-> "object", id |-> id, type |-> type, data |-> data]

(* The payload bytes of a request: the UTF-8 JSON text of a document, text  *)
(* that is not JSON (b'not valid json'), or bytes that are not UTF-8        *)
(* (b'\xff').                                                               *)
Utf8Json(doc) == [enc |-> "utf-8", json |-> TRUE, doc |-> doc]
NotJson == [enc |-> "utf-8", json |-> FALSE]
NotUtf8 == [enc |-> "binary"]

(* json.loads(payload): bytes are decoded as UTF-8 first, then parsed.      *)
json_loads(payload) ==
    IF payload.enc # "utf-8"
    THEN Raise([cls |-> "UnicodeDecodeError",
                msg |-> "'utf-8' codec can't decode byte 0xff in position 0: invalid start byte"])
    ELSE IF ~payload.json
         THEN Raise([cls |-> "JSONDecodeError",
                     msg |-> "Expecting value: line 1 column 1 (char 0)"])
         ELSE Return(payload.doc)

(* `except json.JSONDecodeError`                                            *)
CaughtByJSONDecodeError(cls) == cls = "JSONDecodeError"

(* decimal.Decimal: coefficient * 10^exponent (amounts are not negative).   *)
Decimal(n) == [coef |-> n, exp |-> 0]

(* Mutant of DivideBy100: floor division.                                   *)
DivideBy100_Floor(d) == [coef |-> d.coef \div 100, exp |-> d.exp]

(* Decimal / 100: the exact quotient, with the exponent nearest to that of  *)
(* the dividend.                                                            *)
DivideBy100(d) ==
    IF d.coef % 100 = 0 THEN [coef |-> d.coef \div 100, exp |-> d.exp]
    ELSE IF d.coef % 10 = 0 THEN [coef |-> d.coef \div 10, exp |-> d.exp - 1]
    ELSE [coef |-> d.coef, exp |-> d.exp - 2]

(* str.upper() on ASCII text.                                               *)
AsciiLower == "abcdefghijklmnopqrstuvwxyz"
AsciiUpper == "ABCDEFGHIJKLMNOPQRSTUVWXYZ"

UpperChar(c) ==
    IF \E i \in 1..26 : SubSeq(AsciiLower, i, i) = c
    THEN LET i == CHOOSE k \in 1..26 : SubSeq(AsciiLower, k, k) = c
         IN SubSeq(AsciiUpper, i, i)
    ELSE c

RECURSIVE upper(_)
upper(s) == IF s = "" THEN "" ELSE UpperChar(SubSeq(s, 1, 1)) \o upper(SubSeq(s, 2, Len(s)))

(* MockWebhookHandler(should_fail), with its list of handled events.        *)
MockWebhookHandler(should_fail) ==
    [kind |-> "mock", provider |-> "mock", should_fail |-> should_fail, handled_events |-> <<>>]

(* Some other implementation of IWebhookHandler, whose three methods may    *)
(* return or raise anything.                                                *)
CustomWebhookHandler == [kind |-> "custom", provider |-> "stripe"]

WebhookHandlers == {MockWebhookHandler(b) : b \in BOOLEAN} \cup {CustomWebhookHandler}

(* MockWebhookHandler.verify_signature                                      *)
mock_verify_signature(payload, signature, secret) == signature = "valid_signature"

(* MockWebhookHandler._map_event_type                                       *)
_map_event_type(event_type_str) ==
    CASE event_type_str = "payment.succeeded"      -> "PAYMENT_SUCCEEDED"
      [] event_type_str = "payment.failed"         -> "PAYMENT_FAILED"
      [] event_type_str = "subscription.created"   -> "SUBSCRIPTION_CREATED"
      [] event_type_str = "subscription.updated"   -> "SUBSCRIPTION_UPDATED"
      [] event_type_str = "subscription.cancelled" -> "SUBSCRIPTION_CANCELLED"
      [] event_type_str = "refund.created"         -> "REFUND_CREATED"
      [] event_type_str = "dispute.created"        -> "DISPUTE_CREATED"
      [] OTHER                                     -> "UNKNOWN"

EmptyData == JsonData(None, None, None)

(* MockWebhookHandler.parse_event: payload.get on a document that is not an *)
(* object and Decimal of text that is not a number raise.                   *)
mock_parse_event(payload) ==
    IF payload.t # "object"
    THEN Raise([cls |-> "AttributeError", msg |-> "'list' object has no attribute 'get'"])
    ELSE LET event_id       == IF payload.id # None THEN payload.id[1] ELSE "evt_unknown"
             event_type_str == IF payload.type # None THEN payload.type[1] ELSE "unknown"
             data           == IF payload.data # None THEN payload.data[1] ELSE EmptyData
             event_type     == _map_event_type(event_type_str)
             amount         == IF data.amount # None
                               THEN Some(DivideBy100(Decimal(data.amount[1].int)))
                               ELSE None
             currency       == IF Truthy(data.currency)
                               THEN Some(upper(data.currency[1]))
                               ELSE None
         IN  IF data.amount # None /\ data.amount[1].t # "int"
             THEN Raise([cls |-> "InvalidOperation",
                         msg |-> "[<class 'decimal.ConversionSyntax'>]"])
             ELSE Return(NormalizedWebhookEvent("mock", event_id, event_type,
                                                data.payment_intent_id, amount,
                                                currency, payload))

(* MockWebhookHandler.handle: the value returned (the event is appended to  *)
(* handled_events by the caller's step).                                    *)
mock_handle(handler, e) ==
    IF handler.should_fail
    THEN WebhookResult(FALSE, None, Some("Mock handler configured to fail"))
    ELSE WebhookResult(TRUE, Some("Successfully processed " \o WebhookEventType[e.event_type]),
                       None)

(* What the three methods of the handler may do.                            *)
CustomEvent ==
    NormalizedWebhookEvent("stripe", "evt_s1", "PAYMENT_FAILED", None, None, None,
                           JsonObject(None, None, None))

VerifyOutcomes(handler, payload, signature, secret) ==
    IF handler.kind = "mock"
    THEN {Return(mock_verify_signature(payload, signature, secret))}
    ELSE {Return(TRUE), Return(FALSE)} \cup {Raise(e) : e \in Raises}

ParseEventOutcomes(handler, data) ==
    IF handler.kind = "mock"
    THEN {mock_parse_event(data)}
    ELSE {Return(CustomEvent)} \cup {Raise(e) : e \in Raises}

HandleOutcomes(handler, e) ==
    IF handler.kind = "mock"
    THEN {Return(mock_handle(handler, e))}
    ELSE {Return(WebhookResult(TRUE, Some("ok"), None)),
          Return(WebhookResult(FALSE, None, Some("declined")))}
         \cup {Raise(x) : x \in Raises}

(* The requests sent to the service.                                        *)
Providers == {"mock", "stripe", "paypal"}
Secrets == {"", "whsec_test"}
Signatures == {"valid_signature", "bad_signature"}
TypeStrings == {WebhookEventType[n] : n \in DOMAIN WebhookEventType} \cup {"charge.expired"}
Amounts == {5, 100, 2990, 2999}

Documents ==
    {JsonObject(Some("evt_123"), Some(t), Some(JsonData(Some(JsonInt(2999)), Some("usd"), Some("pi_123")))) :
         t \in TypeStrings}
    \cup {JsonObject(Some("evt_123"), Some("payment.succeeded"), Some(JsonData(Some(JsonInt(a)), Some("Eur"), None))) :
         a \in Amounts}
    \cup {JsonObject(Some("evt_123"), Some("refund.created"), Some(JsonData(a, c, None))) :
         a \in {None, Some(JsonStr("abc"))}, c \in {None, Some("")}}
    \cup {JsonObject(None, None, None), JsonArray}

Payloads == {Utf8Json(d) : d \in Documents} \cup {NotJson, NotUtf8}

(* The handler found for the running call: handler = self._handlers.get(provider). *)
HandlerOf(provider) == IF provider \in DOMAIN whandlers THEN Some(whandlers[provider]) ELSE None

(* self._secrets.get(provider, '')                                          *)
SecretOf(provider) == IF provider \in DOMAIN wsecrets THEN wsecrets[provider] ELSE ""

HandledEvents ==
    IF "mock" \in DOMAIN whandlers THEN whandlers["mock"].handled_events ELSE <<>>

(* WebhookService.register_handler                                          *)
register_handler(handler, webhook_secret) ==
    /\ wpc = "idle"
    /\ whandlers' = [p \in DOMAIN whandlers \cup {handler.provider} |->
                        IF p = handler.provider THEN handler ELSE whandlers[p]]
    /\ wsecrets' = [p \in DOMAIN wsecrets \cup {handler.provider} |->
                        IF p = handler.provider THEN webhook_secret ELSE wsecrets[p]]
    /\ UNCHANGED <<wpc, wprovider, wpayload, wsignature, wdata, wevent, wcalls, wret>>

(* One stage of process as logged: the operation and its outcome.           *)
Stage(op, out) == [op |-> op, out |-> out]

(* Mutant of SignatureRejected: the result of verify_signature is ignored.  *)
SignatureRejected_Never(verified) == FALSE

(* line 91: `if not handler.verify_signature(...)`                          *)
SignatureRejected(verified) == ~verified

(* process, lines 79-85: the handler lookup.                                *)
ProcessBegin(provider, payload, signature) ==
    /\ wpc = "idle"
    /\ Len(HandledEvents) < MaxHandledEvents
    /\ wprovider' = provider
    /\ wpayload' = payload
    /\ wsignature' = signature
    /\ wdata' = None
    /\ wevent' = None
    /\ wcalls' = <<Stage("lookup", Return(HandlerOf(provider)))>>
    /\ IF HandlerOf(provider) = None
       THEN /\ wret' = Return(WebhookResult(FALSE, None, Some("Unknown provider: " \o provider)))
            /\ wpc' = "done"
       ELSE /\ wret' = NoOutcome
            /\ wpc' = "verify"
    /\ UNCHANGED <<whandlers, wsecrets>>

(* process, lines 87-95: verify_signature is called outside any try block,  *)
(* so what it raises leaves process.                                        *)
ProcessVerify(out) ==
    /\ wpc = "verify"
    /\ wcalls' = Append(wcalls, Stage("verify_signature", out))
    /\ IF out.kind = "raise"
       THEN /\ wret' = out
            /\ wpc' = "done"
       ELSE IF SignatureRejected(out.value)
            THEN /\ wret' = Return(WebhookResult(FALSE, None, Some("Invalid signature")))
                 /\ wpc' = "done"
            ELSE /\ wret' = NoOutcome
                 /\ wpc' = "json"
    /\ UNCHANGED <<whandlers, wsecrets, wprovider, wpayload, wsignature, wdata, wevent>>

(* process, lines 97-104                                                    *)
ProcessJson ==
    /\ wpc = "json"
    /\ LET out == json_loads(wpayload) IN
       /\ wcalls' = Append(wcalls, Stage("json.loads", out))
       /\ IF out.kind = "return"
          THEN /\ wdata' = Some(out.value)
               /\ wret' = NoOutcome
               /\ wpc' = "parse"
          ELSE /\ wdata' = wdata
               /\ wret' = IF CaughtByJSONDecodeError(out.exc.cls)
                          THEN Return(WebhookResult(FALSE, None,
                                        Some("Failed to parse JSON: " \o str(out.exc))))
                          ELSE out
               /\ wpc' = "done"
    /\ UNCHANGED <<whandlers, wsecrets, wprovider, wpayload, wsignature, wevent>>

(* process, lines 106-113                                                   *)
ProcessParseEvent(out) ==
    /\ wpc = "parse"
    /\ wcalls' = Append(wcalls, Stage("parse_event", out))
    /\ IF out.kind = "return"
       THEN /\ wevent' = Some(out.value)
            /\ wret' = NoOutcome
            /\ wpc' = "handle"
       ELSE /\ wevent' = wevent
            /\ wret' = IF CaughtByExceptException(out.exc.cls)
                       THEN Return(WebhookResult(FALSE, None,
                                     Some("Failed to parse event: " \o str(out.exc))))
                       ELSE out
            /\ wpc' = "done"
    /\ UNCHANGED <<whandlers, wsecrets, wprovider, wpayload, wsignature, wdata>>

(* process, lines 115-123; the mock handler records the event it is given.  *)
ProcessHandle(out) ==
    /\ wpc = "handle"
    /\ wcalls' = Append(wcalls, Stage("handle", out))
    /\ whandlers' = IF whandlers[wprovider].kind = "mock"
                    THEN [whandlers EXCEPT ![wprovider].handled_events = Append(@, wevent[1])]
                    ELSE whandlers
    /\ wret' = IF out.kind = "return"
               THEN out
               ELSE IF CaughtByExceptException(out.exc.cls)
                    THEN Return(WebhookResult(FALSE, None,
                                  Some("Handler error: " \o str(out.exc))))
                    ELSE out
    /\ wpc' = "done"
    /\ UNCHANGED <<wsecrets, wprovider, wpayload, wsignature, wdata, wevent>>

(* process has returned or raised to its caller.                            *)
ProcessReturn ==
    /\ wpc = "done"
    /\ wpc' = "idle"
    /\ wcalls' = <<>>
    /\ wret' = NoOutcome
    /\ wdata' = None
    /\ wevent' = None
    /\ UNCHANGED <<whandlers, wsecrets, wprovider, wpayload, wsignature>>

(* WebhookService(): no handler, no secret.                                 *)
InitWebhook ==
    /\ whandlers = <<>>
    /\ wsecrets = <<>>
    /\ wpc = "idle"
    /\ wprovider = "mock"
    /\ wpayload = NotJson
    /\ wsignature = ""
    /\ wdata = None
    /\ wevent = None
    /\ wcalls = <<>>
    /\ wret = NoOutcome

-----------------------------------------------------------------------------
(* IdempotencyService.generate_key (sdk/idempotency_service.py).            *)

(* The values handed to generate_key in *args: strings and integers.        *)
ArgStr(s) == [t |-> "str", str |-> s]
ArgInt(n) == [t |-> "int", int |-> n]

(* str(a)                                                                   *)
py_str(a) == IF a.t = "str" THEN a.str ELSE ToString(a.int)

(* ':'.join(str(a) for a in args)                                           *)
RECURSIVE ColonJoin(_)
ColonJoin(args) ==
    IF args = <<>> THEN ""
    ELSE IF Len(args) = 1 THEN py_str(args[1])
    ELSE py_str(args[1]) \o ":" \o ColonJoin(Tail(args))

(* hashlib.sha256(data.encode()).hexdigest()[:32]: the digest is taken to   *)
(* be free of collisions, so it is named by the text it was computed from.  *)
sha256_hex32(data) == [sha256 |-> data, chars |-> 32]

(* generate_key(provider, operation, *args)                                 *)
generate_key(provider, operation, args) ==
    sha256_hex32(provider \o ":" \o operation \o ":" \o ColonJoin(args))

KeyProviders == {"stripe", "stripe:create"}
KeyOperations == {"create_payment", "payment"}
KeyArgValues == {ArgStr("100"), ArgStr("USD"), ArgStr("100:USD"), ArgInt(100)}

RECURSIVE ArgLists(_)
ArgLists(n) ==
    IF n = 0 THEN {<<>>}
    ELSE ArgLists(n - 1) \cup
         {Append(l, a) : l \in {x \in ArgLists(n - 1) : Len(x) = n - 1}, a \in KeyArgValues}

KeyCalls ==
    {[provider |-> p, operation |-> o, args |-> l] :
        p \in KeyProviders, o \in KeyOperations, l \in ArgLists(MaxKeyArgs)}

(* Two calls of generate_key.                                               *)
GenerateKeys ==
    /\ kout = None
    /\ kout' = Some(<<generate_key(kin[1].provider, kin[1].operation, kin[1].args),
                      generate_key(kin[2].provider, kin[2].operation, kin[2].args)>>)
    /\ UNCHANGED kin

InitKey ==
    /\ kin = <<[provider |-> "stripe", operation |-> "payment", args |-> <<>>],
               [provider |-> "stripe", operation |-> "payment", args |-> <<>>]>>
    /\ kout = None

InitKeyInputs ==
    /\ kin \in KeyCalls \X KeyCalls
    /\ kout = None

-----------------------------------------------------------------------------
(* The order of registration, kept beside the dispatcher to state what the  *)
(* stable sort preserves.                                                   *)
RegisterInOrder(h) ==
    /\ Register(h)
    /\ regOrder' = Append(regOrder, h)

UnregisterInOrder(h) ==
    /\ Unregister(h)
    /\ regOrder' = SelectSeq(regOrder, LAMBDA g : g # h)

InitOrder == regOrder = <<>>

-----------------------------------------------------------------------------
(* Subscription (models/subscription.py) and SubscriptionService            *)
(* (services/subscription_service.py) over the rows found by                *)
(* SubscriptionRepository (repositories/subscription_repository.py).        *)

(* SubscriptionStatus                                                       *)
PENDING == "pending"
ACTIVE == "active"
PAUSED == "paused"
CANCELLED == "cancelled"
EXPIRED == "expired"
SubscriptionStatus == {PENDING, ACTIVE, PAUSED, CANCELLED, EXPIRED}

(* BillingPeriod, and SubscriptionService.PERIOD_DAYS.get(period, 30).      *)
BillingPeriod == {"monthly", "yearly", "quarterly", "weekly", "one_time"}

PeriodDays(period) ==
    CASE period = "monthly"   -> 30
      [] period = "quarterly" -> 90
      [] period = "yearly"    -> 365
      [] period = "one_time"  -> 36500
      [] OTHER                -> 30

(* A row of the table; the plan is reduced to its billing period.           *)
Subscription(billing_period) ==
    [status |-> PENDING, started_at |-> None, expires_at |-> None,
     cancelled_at |-> None, billing_period |-> billing_period]

(* Subscription.activate                                                    *)
activate(sub, duration_days) ==
    [sub EXCEPT !.status = ACTIVE, !.started_at = Some(now),
                !.expires_at = Some(now + duration_days)]

(* Subscription.cancel                                                      *)
cancel(sub) == [sub EXCEPT !.status = CANCELLED, !.cancelled_at = Some(now)]

(* Subscription.expire                                                      *)
expire(sub) == [sub EXCEPT !.status = EXPIRED]

(* Subscription.pause                                                       *)
pause(sub) == [sub EXCEPT !.status = PAUSED]

SubscriptionIds == 1..NumSubscriptions

(* SubscriptionRepository.find_by_id                                        *)
find_by_id(id) == IF id \in DOMAIN subscriptions THEN Some(subscriptions[id]) ELSE None

(* Mutant of IsExpiredRow: the status is not looked at.                     *)
IsExpiredRow_AnyStatus(sub) == sub.expires_at # None /\ sub.expires_at[1] < now

(* The filter of SubscriptionRepository.find_expired; a NULL expires_at     *)
(* never compares as smaller.                                               *)
IsExpiredRow(sub) ==
    sub.status = ACTIVE /\ sub.expires_at # None /\ sub.expires_at[1] < now

find_expired == {id \in DOMAIN subscriptions : IsExpiredRow(subscriptions[id])}

Statuses == [id \in DOMAIN subscriptions |-> subscriptions[id].status]

(* The operation applied last, the row it names (0: none) and the statuses   *)
(* before it.                                                               *)
Operation(op, id) == [op |-> op, id |-> id, before |-> Statuses]

NotFound(id) ==
    Raise([cls |-> "ValueError", msg |-> "Subscription not found", seq |-> id])

(* The plans offered to create_subscription.                                *)
PlanPeriods == {"monthly", "weekly", "one_time"}

(* SubscriptionService.create_subscription with an active plan.             *)
create_subscription(billing_period) ==
    /\ Len(subscriptions) < NumSubscriptions
    /\ subscriptions' = Append(subscriptions, Subscription(billing_period))
    /\ slog' = Operation("create_subscription", Len(subscriptions) + 1)
    /\ sret' = Return(Len(subscriptions) + 1)
    /\ UNCHANGED now

(* A service call that loads a row, applies f to it and saves it.           *)
OnSubscription(op, id, f(_)) ==
    /\ slog' = Operation(op, id)
    /\ IF find_by_id(id) = None
       THEN /\ sret' = NotFound(id)
            /\ UNCHANGED subscriptions
       ELSE /\ subscriptions' = [subscriptions EXCEPT ![id] = f(@)]
            /\ sret' = Return(id)
    /\ UNCHANGED now

(* SubscriptionService.activate_subscription                                *)
activate_subscription(id) ==
    OnSubscription("activate_subscription", id,
                   LAMBDA sub : activate(sub, PeriodDays(sub.billing_period)))

(* SubscriptionService.cancel_subscription                                  *)
cancel_subscription(id) ==
    OnSubscription("cancel_subscription", id, LAMBDA sub : cancel(sub))

(* SubscriptionService.renew_subscription                                   *)
renew_subscription(id) ==
    OnSubscription("renew_subscription", id,
                   LAMBDA sub : activate(sub, PeriodDays(sub.billing_period)))

(* SubscriptionService.expire_subscriptions                                 *)
expire_subscriptions ==
    /\ slog' = Operation("expire_subscriptions", 0)
    /\ subscriptions' = [id \in DOMAIN subscriptions |->
                            IF id \in find_expired THEN expire(subscriptions[id])
                            ELSE subscriptions[id]]
    /\ sret' = Return(find_expired)
    /\ UNCHANGED now

(* The methods of Subscription called on a loaded row.                      *)
ModelDurations == {30}

SubscriptionMethod(op, id, f(_)) ==
    /\ id \in DOMAIN subscriptions
    /\ slog' = Operation(op, id)
    /\ subscriptions' = [subscriptions EXCEPT ![id] = f(@)]
    /\ UNCHANGED <<now, sret>>

CallActivate(id, duration_days) ==
    SubscriptionMethod("activate", id, LAMBDA sub : activate(sub, duration_days))

CallCancel(id) == SubscriptionMethod("cancel", id, LAMBDA sub : cancel(sub))

CallExpire(id) == SubscriptionMethod("expire", id, LAMBDA sub : expire(sub))

CallPause(id) == SubscriptionMethod("pause", id, LAMBDA sub : pause(sub))

(* Time passes.                                                             *)
Tick ==
    /\ now + DaysPerTick <= MaxDays
    /\ now' = now + DaysPerTick
    /\ slog' = Operation("tick", 0)
    /\ UNCHANGED <<subscriptions, sret>>

InitSubscriptions ==
    /\ subscriptions = <<>>
    /\ now = 0
    /\ slog = [op |-> "none", id |-> 0, before |-> <<>>]
    /\ sret = NoOutcome

-----------------------------------------------------------------------------
(* DomainEvent and DomainEventDispatcher (events/dispatcher.py,             *)
(* events/domain.py).  A DomainEvent extends the Event of                   *)
(* events/dispatcher.py: it has the attribute propagation_stopped and the   *)
(* method stop_propagation, and no method is_propagation_stopped.           *)
DomainEvent(name) == [name |-> name, propagation_stopped |-> FALSE]

(* hasattr(event, 'is_propagation_stopped'): true of the Event of           *)
(* events/core/base.py only.                                                *)
HasIsPropagationStopped(e) == "stopped" \in DOMAIN e

(* event.stop_propagation() of either class.                                *)
StopPropagation(e) ==
    IF HasIsPropagationStopped(e)
    THEN stop_propagation(e)
    ELSE [e EXCEPT !.propagation_stopped = TRUE]

(* What the two methods of a handler do with one event: can_handle returns  *)
(* False, can_handle raises, handle returns a result, handle raises; handle *)
(* may call event.stop_propagation() first.                                 *)
Skips == [kind |-> "skip"]
CanHandleRaising(e) == [kind |-> "can_raise", exc |-> e]
Returning(r, stop) == [kind |-> "return", value |-> r, stop |-> stop]
Raising(e, stop) == [kind |-> "raise", exc |-> e, stop |-> stop]

HandlerBehaviours(h) ==
    {Skips,
     CanHandleRaising([cls |-> "RuntimeError", msg |-> "check failed"]),
     Returning(success_result(Some(ToString(h))), FALSE),
     Returning(success_result(Some(ToString(h))), TRUE),
     Raising([cls |-> "ValueError", msg |-> "boom"], FALSE)}

(* A handler does the same with equal events: the behaviour drawn at its    *)
(* first invocation is the one it shows at the next.                        *)
BehavesAs(h, b) == h \in DOMAIN behaviour => behaviour[h] = b

Recorded(h, b) == [g \in DOMAIN behaviour \cup {h} |-> IF g = h THEN b ELSE behaviour[g]]

(* DomainEventDispatcher.register(event_name, handler)                      *)
domain_register(event_name, handler) ==
    /\ dhandlers' = [n \in DOMAIN dhandlers \cup {event_name} |->
                        IF n = event_name
                        THEN Append(IF n \in DOMAIN dhandlers THEN dhandlers[n] ELSE <<>>,
                                    handler)
                        ELSE dhandlers[n]]
    /\ UNCHANGED <<eevent, epc, eidx, eresults, ecalls, eret, behaviour>>

(* emit, lines 162-165.                                                     *)
EmitBegin(e) ==
    /\ epc = "idle"
    /\ eevent' = e
    /\ eresults' = <<>>
    /\ ecalls' = <<>>
    /\ IF e.name \notin DOMAIN dhandlers
       THEN epc' = "done" /\ eidx' = 0 /\ eret' = Return(no_handler)
       ELSE epc' = "loop" /\ eidx' = 1 /\ eret' = NoOutcome
    /\ UNCHANGED <<dhandlers, behaviour>>

EmitInLoop == epc = "loop" /\ eidx <= Len(dhandlers[eevent.name])

EmitCurrent == dhandlers[eevent.name][eidx]

(* lines 172-176                                                            *)
EmitOnException(e) ==
    IF CaughtByExceptException(e.cls)
    THEN /\ eresults' = Append(eresults, error_result(str(e), "handler_exception"))
         /\ eidx' = eidx + 1
         /\ UNCHANGED <<epc, eret>>
    ELSE /\ eret' = Raise(e)
         /\ epc' = "done"
         /\ UNCHANGED <<eresults, eidx>>

(* lines 167-176: one pass of the loop, the handler behaving as b.          *)
EmitHandler(b) ==
    /\ EmitInLoop
    /\ CASE b.kind = "skip" ->
              /\ ecalls' = Append(ecalls, Call(EmitCurrent, "can_handle", "false", None))
              /\ eidx' = eidx + 1
              /\ UNCHANGED <<eevent, eresults, epc, eret>>
         [] b.kind = "can_raise" ->
              /\ ecalls' = Append(ecalls, Call(EmitCurrent, "can_handle", "raise",
                                               Some(str(b.exc))))
              /\ EmitOnException(b.exc)
              /\ UNCHANGED eevent
         [] b.kind = "return" ->
              /\ ecalls' = ecalls \o <<Call(EmitCurrent, "can_handle", "true", None),
                                       Call(EmitCurrent, "handle", "return", None)>>
              /\ eevent' = IF b.stop THEN StopPropagation(eevent) ELSE eevent
              /\ eresults' = Append(eresults, b.value)
              /\ eidx' = eidx + 1
              /\ UNCHANGED <<epc, eret>>
         [] b.kind = "raise" ->
              /\ ecalls' = ecalls \o <<Call(EmitCurrent, "can_handle", "true", None),
                                       Call(EmitCurrent, "handle", "raise",
                                            Some(str(b.exc)))>>
              /\ eevent' = IF b.stop THEN StopPropagation(eevent) ELSE eevent
              /\ EmitOnException(b.exc)
    /\ UNCHANGED dhandlers

(* lines 178-181                                                            *)
EmitExhausted ==
    /\ epc = "loop"
    /\ eidx > Len(dhandlers[eevent.name])
    /\ eret' = Return(IF eresults = <<>> THEN no_handler ELSE combine(eresults))
    /\ epc' = "done"
    /\ UNCHANGED <<dhandlers, eevent, eidx, eresults, ecalls, behaviour>>

(* emit has returned to its caller; its locals are gone.                    *)
EmitReturn ==
    /\ epc = "done"
    /\ epc' = "idle"
    /\ eidx' = 0
    /\ eresults' = <<>>
    /\ ecalls' = <<>>
    /\ eret' = NoOutcome
    /\ UNCHANGED <<dhandlers, eevent, behaviour>>

(* EnhancedEventDispatcher.dispatch, line 98, on an event that has no       *)
(* method is_propagation_stopped: the call raises AttributeError outside    *)
(* the try block.                                                           *)
DispatchAttributeError ==
    /\ InLoop
    /\ ~HasIsPropagationStopped(event)
    /\ ret' = Raise([cls |-> "AttributeError",
                     msg |-> "'DomainEvent' object has no attribute 'is_propagation_stopped'"])
    /\ pc' = "done"
    /\ UNCHANGED <<handlers, event, idx, results, calls>>

(* One pass of dispatch's loop, the handler behaving as b.                  *)
DispatchHandler(b) ==
    CASE b.kind = "skip" -> HandlerSkipped
      [] b.kind = "can_raise" -> CanHandleRaises(b.exc)
      [] b.kind = "return" -> HandlerReturns(b.value, b.stop)
      [] b.kind = "raise" -> HandlerRaises(b.exc, b.stop)

InitEmit ==
    /\ dhandlers = <<>>
    /\ eevent = DomainEvent("test.event")
    /\ epc = "idle"
    /\ eidx = 0
    /\ eresults = <<>>
    /\ ecalls = <<>>
    /\ eret = NoOutcome
    /\ behaviour = <<>>

-----------------------------------------------------------------------------
(* RedisClient.lock (utils/redis_client.py) on one key, over the Lock of    *)
(* redis-py: acquire is SET NX PX with a fresh token, release deletes the   *)
(* key if it still holds the token and raises LockNotOwnedError otherwise,  *)
(* and the key expires by itself `timeout` seconds after the acquisition.   *)
Lockers == 1..NumLockers

DefaultBlockingTimeout == 5

BlockingTimeouts == {0, DefaultBlockingTimeout}

BodyOutcomes == {Return(None), Raise([cls |-> "ValueError", msg |-> "boom"])}

(* lines 53-59: the Lock object is built, acquired = False.                 *)
LockEnter(p, blocking_timeout) ==
    /\ lpc[p] = "idle"
    /\ lcount < MaxLockCalls
    /\ lcount' = lcount + 1
    /\ lpc' = [lpc EXCEPT ![p] = "acquire"]
    /\ lbt' = [lbt EXCEPT ![p] = blocking_timeout]
    /\ ltoken' = [ltoken EXCEPT ![p] = None]
    /\ acquired' = [acquired EXCEPT ![p] = FALSE]
    /\ lyield' = [lyield EXCEPT ![p] = None]
    /\ lbody' = [lbody EXCEPT ![p] = NoOutcome]
    /\ lwaited' = [lwaited EXCEPT ![p] = FALSE]
    /\ lrelease' = [lrelease EXCEPT ![p] = "none"]
    /\ lret' = [lret EXCEPT ![p] = NoOutcome]
    /\ UNCHANGED lkey

(* line 61, Lock.acquire: one try of SET NX; the key is free.               *)
LockAcquired(p) ==
    /\ lpc[p] = "acquire"
    /\ lkey = None
    /\ lkey' = Some(<<p, lcount>>)
    /\ ltoken' = [ltoken EXCEPT ![p] = Some(<<p, lcount>>)]
    /\ acquired' = [acquired EXCEPT ![p] = TRUE]
    /\ lyield' = [lyield EXCEPT ![p] = Some(TRUE)]
    /\ lpc' = [lpc EXCEPT ![p] = "body"]
    /\ UNCHANGED <<lcount, lbt, lbody, lwaited, lrelease, lret>>

(* Lock.acquire: the key is held and the blocking timeout has not run out:  *)
(* the call sleeps and tries again.                                         *)
LockWait(p) ==
    /\ lpc[p] = "acquire"
    /\ lkey # None
    /\ lbt[p] > 0
    /\ lwaited' = [lwaited EXCEPT ![p] = TRUE]
    /\ UNCHANGED <<lkey, lcount, lpc, lbt, ltoken, acquired, lyield, lbody, lrelease, lret>>

(* Lock.acquire returns False: the key is held and the next try would come  *)
(* after the blocking timeout (at once when it is 0); lines 65-67.          *)
LockNotAcquired(p) ==
    /\ lpc[p] = "acquire"
    /\ lkey # None
    /\ lbt[p] = 0 \/ lwaited[p]
    /\ lyield' = [lyield EXCEPT ![p] = Some(FALSE)]
    /\ lpc' = [lpc EXCEPT ![p] = "body"]
    /\ UNCHANGED <<lkey, lcount, lbt, ltoken, acquired, lbody, lwaited, lrelease, lret>>

(* The body of the with-statement runs to its end or raises.                *)
LockBody(p, out) ==
    /\ lpc[p] = "body"
    /\ lbody' = [lbody EXCEPT ![p] = out]
    /\ lpc' = [lpc EXCEPT ![p] = "finally"]
    /\ UNCHANGED <<lkey, lcount, lbt, ltoken, acquired, lyield, lwaited, lrelease, lret>>

(* Mutant of ReleaseNeeded: the finally clause always releases.             *)
ReleaseNeeded_Always(acq) == TRUE

(* line 69: `if acquired`                                                   *)
ReleaseNeeded(acq) == acq

(* Lock.release: LockError without a token, LockNotOwnedError when the key  *)
(* no longer holds the token, else the key is deleted.                      *)
LockRelease(token) ==
    IF token = None THEN "LockError"
    ELSE IF lkey # token THEN "LockNotOwnedError"
    ELSE "released"

(* `except redis.exceptions.LockNotOwnedError`                              *)
CaughtByLockNotOwnedError(cls) == cls = "LockNotOwnedError"

(* lines 68-74: the finally clause, then the with-statement ends as its     *)
(* body did, unless the release raises an error that is not caught.         *)
LockFinally(p) ==
    /\ lpc[p] = "finally"
    /\ IF ReleaseNeeded(acquired[p])
       THEN LET found == LockRelease(ltoken[p]) IN
            /\ lrelease' = [lrelease EXCEPT ![p] = found]
            /\ lkey' = IF found = "released" THEN None ELSE lkey
            /\ ltoken' = [ltoken EXCEPT ![p] = None]
            /\ lret' = [lret EXCEPT ![p] =
                  IF found = "released" \/ CaughtByLockNotOwnedError(found)
                  THEN lbody[p]
                  ELSE Raise([cls |-> found, msg |-> "Cannot release an unlocked lock"])]
       ELSE /\ lret' = [lret EXCEPT ![p] = lbody[p]]
            /\ UNCHANGED <<lkey, ltoken, lrelease>>
    /\ lpc' = [lpc EXCEPT ![p] = "done"]
    /\ UNCHANGED <<lcount, lbt, acquired, lyield, lbody, lwaited>>

(* The with-statement is over.                                              *)
LockReturn(p) ==
    /\ lpc[p] = "done"
    /\ lpc' = [lpc EXCEPT ![p] = "idle"]
    /\ UNCHANGED <<lkey, lcount, lbt, ltoken, acquired, lyield, lbody, lwaited, lrelease, lret>>

(* `timeout` seconds have passed since the acquisition: redis drops the key.*)
LockExpires ==
    /\ lkey # None
    /\ lkey' = None
    /\ UNCHANGED <<lcount, lpc, lbt, ltoken, acquired, lyield, lbody, lwaited, lrelease, lret>>

InitLock ==
    /\ lkey = None
    /\ lcount = 0
    /\ lpc = [p \in Lockers |-> "idle"]
    /\ lbt = [p \in Lockers |-> DefaultBlockingTimeout]
    /\ ltoken = [p \in Lockers |-> None]
    /\ acquired = [p \in Lockers |-> FALSE]
    /\ lyield = [p \in Lockers |-> None]
    /\ lbody = [p \in Lockers |-> NoOutcome]
    /\ lwaited = [p \in Lockers |-> FALSE]
    /\ lrelease = [p \in Lockers |-> "none"]
    /\ lret = [p \in Lockers |-> NoOutcome]

-----------------------------------------------------------------------------
(* BaseRepository.save on one entity that has an id (repositories/base.py,  *)
(* models/base.py).  Each writer works in a session of its own; the mapper  *)
(* has no version_id_col, so the UPDATE of a commit is keyed by the id only.*)
Writers == 1..NumWriters

ConcurrentModificationError(msg) == [cls |-> "ConcurrentModificationError", msg |-> msg]

(* A writer reads the entity: repository.find_by_id in a fresh session.     *)
LoadEntity(w) ==
    /\ svpc[w] = "idle"
    /\ rowExists
    /\ wver' = [wver EXCEPT ![w] = stored]
    /\ svpc' = [svpc EXCEPT ![w] = "loaded"]
    /\ UNCHANGED <<rowExists, stored, expected, svret>>

(* session.get(model, id) inside save: the object of the session's identity *)
(* map when it is still there, else the row as it is stored now.            *)
CurrentVersions(w) == {wver[w], stored}

ExpectedVersions(w) == {None, Some(wver[w]), Some(wver[w] + 1)}

(* line 65: `current.version != expected_version`                           *)
VersionMismatch(current_version, expected_version) == current_version # expected_version

(* lines 59-69: the version check of save(entity, expected_version).        *)
SaveCheck(w, expected_version, current_version) ==
    /\ svpc[w] = "loaded"
    /\ expected' = [expected EXCEPT ![w] = expected_version]
    /\ IF expected_version = None
       THEN /\ svpc' = [svpc EXCEPT ![w] = "commit"]
            /\ UNCHANGED svret
       ELSE IF ~rowExists
       THEN /\ svret' = [svret EXCEPT ![w] =
                  Raise([cls |-> "ValueError", msg |-> "Entity not found"])]
            /\ svpc' = [svpc EXCEPT ![w] = "done"]
       ELSE IF VersionMismatch(current_version, expected_version[1])
       THEN /\ svret' = [svret EXCEPT ![w] = Raise(ConcurrentModificationError(
                  "Entity was modified by another transaction"))]
            /\ svpc' = [svpc EXCEPT ![w] = "done"]
       ELSE /\ svpc' = [svpc EXCEPT ![w] = "commit"]
            /\ UNCHANGED svret
    /\ UNCHANGED <<rowExists, stored, wver>>

(* models/base.py, before_update: target.version += 1                       *)
increment_version(version) == version + 1

(* lines 71-81: commit flushes UPDATE ... WHERE id = :id with the object's  *)
(* incremented version; a row that is gone gives StaleDataError.            *)
SaveCommit(w) ==
    /\ svpc[w] = "commit"
    /\ IF rowExists
       THEN /\ increment_version(wver[w]) <= MaxVersion
            /\ stored' = increment_version(wver[w])
            /\ wver' = [wver EXCEPT ![w] = increment_version(wver[w])]
            /\ svret' = [svret EXCEPT ![w] = Return(increment_version(wver[w]))]
       ELSE /\ svret' = [svret EXCEPT ![w] = Raise(ConcurrentModificationError(
                  "Concurrent modification detected during save"))]
            /\ UNCHANGED <<stored, wver>>
    /\ svpc' = [svpc EXCEPT ![w] = "done"]
    /\ UNCHANGED <<rowExists, expected>>

(* save has returned or raised; the writer's session ends.                  *)
SaveReturn(w) ==
    /\ svpc[w] = "done"
    /\ svpc' = [svpc EXCEPT ![w] = "idle"]
    /\ expected' = [expected EXCEPT ![w] = None]
    /\ svret' = [svret EXCEPT ![w] = NoOutcome]
    /\ UNCHANGED <<rowExists, stored, wver>>

(* BaseRepository.delete(id) by another session, lines 83-90.               *)
DeleteEntity ==
    /\ rowExists
    /\ rowExists' = FALSE
    /\ UNCHANGED <<stored, svpc, wver, expected, svret>>

InitSave ==
    /\ rowExists = TRUE
    /\ stored = 0
    /\ svpc = [w \in Writers |-> "idle"]
    /\ wver = [w \in Writers |-> 0]
    /\ expected = [w \in Writers |-> None]
    /\ svret = [w \in Writers |-> NoOutcome]

-----------------------------------------------------------------------------
(* Plugins (plugins/base.py, plugins/manager.py).  The manager's event      *)
(* dispatcher has no listeners; a plugin is named by its number.            *)
DISCOVERED == "discovered"
INITIALIZED == "initialized"
(* PluginStatus.ENABLED                                                     *)
ENABLED_STATUS == "enabled"
DISABLED == "disabled"
PluginStatus == {DISCOVERED, "registered", INITIALIZED, ENABLED_STATUS, DISABLED, "error"}

PluginNames == 1..NumPlugins

(* metadata.dependencies of each plugin class: plugin 1 needs plugin 2,     *)
(* plugin 3 needs plugins 1 and 4, the others need nothing.                 *)
Dependencies(name) ==
    IF name = 1 THEN <<2>> ELSE IF name = 3 THEN <<1, 4>> ELSE <<>>

HookOutcomes == {Return(None), Raise([cls |-> "RuntimeError", msg |-> "hook failed"])}

(* What an operation leaves behind: its name and argument, the statuses     *)
(* before it, whether the plugin's hook ran, the event emitted, the outcome.*)
PluginOperation(op, name, hook, emitted, out) ==
    [op |-> op, name |-> name, before |-> pstatus, hook |-> hook, emitted |-> emitted, out |-> out]

PluginValueError(msg) == Raise([cls |-> "ValueError", msg |-> msg])

(* Mutant of CanEnable: every plugin that is not enabled may be enabled.    *)
CanEnable_NotEnabled(status) == status # ENABLED_STATUS

(* BasePlugin.enable, line 67                                               *)
CanEnable(status) == status = INITIALIZED

(* BasePlugin.disable, line 74                                              *)
CanDisable(status) == status = ENABLED_STATUS

(* PluginManager.register_plugin                                            *)
register_plugin(name) ==
    IF name \in plugins
    THEN /\ plog' = PluginOperation("register_plugin", name, FALSE, None,
                                    PluginValueError("already registered"))
         /\ UNCHANGED <<plugins, pstatus>>
    ELSE /\ plugins' = plugins \cup {name}
         /\ plog' = PluginOperation("register_plugin", name, FALSE,
                                    Some("plugin.registered"), Return(None))
         /\ UNCHANGED pstatus

(* PluginManager.initialize_plugin with BasePlugin.initialize               *)
initialize_plugin(name) ==
    IF name \notin plugins
    THEN /\ plog' = PluginOperation("initialize_plugin", name, FALSE, None,
                                    PluginValueError("not found"))
         /\ UNCHANGED <<plugins, pstatus>>
    ELSE /\ pstatus' = [pstatus EXCEPT ![name] = INITIALIZED]
         /\ plog' = PluginOperation("initialize_plugin", name, FALSE,
                                    Some("plugin.initialized"), Return(None))
         /\ UNCHANGED plugins

(* line 107: the first dependency that is missing or not enabled.           *)
UnmetDependencies(name) ==
    {i \in 1..Len(Dependencies(name)) :
        LET dep == Dependencies(name)[i]
        IN dep \notin plugins \/ pstatus[dep] # ENABLED_STATUS}

(* PluginManager.enable_plugin with BasePlugin.enable; on_enable ends as    *)
(* hook says.                                                               *)
enable_plugin(name, hook) ==
    /\ UNCHANGED plugins
    /\ IF name \notin plugins
       THEN /\ plog' = PluginOperation("enable_plugin", name, FALSE, None,
                                       PluginValueError("not found"))
            /\ UNCHANGED pstatus
       ELSE IF UnmetDependencies(name) # {}
       THEN /\ plog' = PluginOperation("enable_plugin", name, FALSE, None,
                                       PluginValueError("dependency not enabled"))
            /\ UNCHANGED pstatus
       ELSE IF ~CanEnable(pstatus[name])
       THEN /\ plog' = PluginOperation("enable_plugin", name, FALSE, None,
                                       PluginValueError("cannot enable"))
            /\ UNCHANGED pstatus
       ELSE IF hook.kind = "raise"
       THEN /\ plog' = PluginOperation("enable_plugin", name, TRUE, None, hook)
            /\ UNCHANGED pstatus
       ELSE /\ pstatus' = [pstatus EXCEPT ![name] = ENABLED_STATUS]
            /\ plog' = PluginOperation("enable_plugin", name, TRUE,
                                       Some("plugin.enabled"), Return(None))

(* lines 134-138: the enabled plugins that list name as a dependency.       *)
DependentPlugins(name) ==
    {p \in plugins : pstatus[p] = ENABLED_STATUS
                     /\ \E i \in 1..Len(Dependencies(p)) : Dependencies(p)[i] = name}

(* PluginManager.disable_plugin with BasePlugin.disable                     *)
disable_plugin(name, hook) ==
    /\ UNCHANGED plugins
    /\ IF name \notin plugins
       THEN /\ plog' = PluginOperation("disable_plugin", name, FALSE, None,
                                       PluginValueError("not found"))
            /\ UNCHANGED pstatus
       ELSE IF DependentPlugins(name) # {}
       THEN /\ plog' = PluginOperation("disable_plugin", name, FALSE, None,
                                       PluginValueError("plugins depend on it"))
            /\ UNCHANGED pstatus
       ELSE IF ~CanDisable(pstatus[name])
       THEN /\ plog' = PluginOperation("disable_plugin", name, FALSE, None,
                                       PluginValueError("cannot disable"))
            /\ UNCHANGED pstatus
       ELSE IF hook.kind = "raise"
       THEN /\ plog' = PluginOperation("disable_plugin", name, TRUE, None, hook)
            /\ UNCHANGED pstatus
       ELSE /\ pstatus' = [pstatus EXCEPT ![name] = DISABLED]
            /\ plog' = PluginOperation("disable_plugin", name, TRUE,
                                       Some("plugin.disabled"), Return(None))

InitPlugins ==
    /\ plugins = {}
    /\ pstatus = [p \in PluginNames |-> DISCOVERED]
    /\ plog = [op |-> "none", name |-> 0, before |-> pstatus, hook |-> FALSE,
               emitted |-> None, out |-> NoOutcome]

-----------------------------------------------------------------------------
vars == <<handlers, event, pc, idx, results, calls, ret, cin, cout,
          cache, invocations, ipc, ikey, isvc, iresp, iret,
          config, rpc, retries, attempt, last_error, outcomes, sleeps, rret,
          whandlers, wsecrets, wpc, wprovider, wpayload, wsignature, wdata, wevent, wcalls, wret,
          kin, kout,
          regOrder,
          subscriptions, now, slog, sret,
          dhandlers, eevent, epc, eidx, eresults, ecalls, eret, behaviour,
          lkey, lcount, lpc, lbt, ltoken, acquired, lyield, lbody, lwaited, lrelease, lret,
          rowExists, stored, svpc, wver, expected, svret,
          plugins, pstatus, plog>>

Init ==
    /\ InitDispatch
    /\ InitCombine
    /\ InitIdem
    /\ InitRetry
    /\ InitWebhook
    /\ InitKey
    /\ InitOrder
    /\ InitSubscriptions
    /\ InitEmit
    /\ InitLock
    /\ InitSave
    /\ InitPlugins

(* The dispatcher, driven by one thread.                                    *)
Next ==
    \/ \E h \in Handlers : Register(h) /\ UNCHANGED <<combVars, idemVars, retryVars, webVars, keyVars, orderVars, subVars, emitVars, lockVars, saveVars, plugVars>>
    \/ \E h \in Handlers : Unregister(h) /\ UNCHANGED <<combVars, idemVars, retryVars, webVars, keyVars, orderVars, subVars, emitVars, lockVars, saveVars, plugVars>>
    \/ \E e \in {Event(n) : n \in EventNames} \cup {event} :
          DispatchBegin(e) /\ UNCHANGED <<combVars, idemVars, retryVars, webVars, keyVars, orderVars, subVars, emitVars, lockVars, saveVars, plugVars>>
    \/ DispatchBreak /\ UNCHANGED <<combVars, idemVars, retryVars, webVars, keyVars, orderVars, subVars, emitVars, lockVars, saveVars, plugVars>>
    \/ DispatchExhausted /\ UNCHANGED <<combVars, idemVars, retryVars, webVars, keyVars, orderVars, subVars, emitVars, lockVars, saveVars, plugVars>>
    \/ HandlerSkipped /\ UNCHANGED <<combVars, idemVars, retryVars, webVars, keyVars, orderVars, subVars, emitVars, lockVars, saveVars, plugVars>>
    \/ \E e \in Raises : CanHandleRaises(e) /\ UNCHANGED <<combVars, idemVars, retryVars, webVars, keyVars, orderVars, subVars, emitVars, lockVars, saveVars, plugVars>>
    \/ \E r \in Returns, stop \in BOOLEAN :
          HandlerReturns(r, stop) /\ UNCHANGED <<combVars, idemVars, retryVars, webVars, keyVars, orderVars, subVars, emitVars, lockVars, saveVars, plugVars>>
    \/ \E e \in Raises, stop \in BOOLEAN :
          HandlerRaises(e, stop) /\ UNCHANGED <<combVars, idemVars, retryVars, webVars, keyVars, orderVars, subVars, emitVars, lockVars, saveVars, plugVars>>
    \/ DispatchReturn /\ UNCHANGED <<combVars, idemVars, retryVars, webVars, keyVars, orderVars, subVars, emitVars, lockVars, saveVars, plugVars>>

Spec == Init /\ [][Next]_vars

(* Calls of EventResult.combine on every list of results.                   *)
InitCombineSpec ==
    /\ InitDispatch
    /\ InitCombineInputs
    /\ InitIdem
    /\ InitRetry
    /\ InitWebhook
    /\ InitKey
    /\ InitOrder
    /\ InitSubscriptions
    /\ InitEmit
    /\ InitLock
    /\ InitSave
    /\ InitPlugins

NextCombine == CombineApply /\ UNCHANGED <<dispVars, idemVars, retryVars, webVars, keyVars, orderVars, subVars, emitVars, lockVars, saveVars, plugVars>>

SpecCombine == InitCombineSpec /\ [][NextCombine]_vars

(* Calls of _with_idempotency made one after the other on a shared cache.   *)
NextIdem ==
    \/ \E p \in Callers, key \in KeyArgs, svc \in BOOLEAN :
          NoOtherCall(p) /\ IdemBegin(p, key, svc) /\ UNCHANGED <<dispVars, combVars, retryVars, webVars, keyVars, orderVars, subVars, emitVars, lockVars, saveVars, plugVars>>
    \/ \E p \in Callers : \E out \in OperationOutcomes(invocations + 1) :
          IdemOperation(p, out) /\ UNCHANGED <<dispVars, combVars, retryVars, webVars, keyVars, orderVars, subVars, emitVars, lockVars, saveVars, plugVars>>
    \/ \E p \in Callers : IdemStore(p) /\ UNCHANGED <<dispVars, combVars, retryVars, webVars, keyVars, orderVars, subVars, emitVars, lockVars, saveVars, plugVars>>
    \/ \E p \in Callers : IdemReturn(p) /\ UNCHANGED <<dispVars, combVars, retryVars, webVars, keyVars, orderVars, subVars, emitVars, lockVars, saveVars, plugVars>>
    \/ \E key \in IdemKeys : Expire(key) /\ UNCHANGED <<dispVars, combVars, retryVars, webVars, keyVars, orderVars, subVars, emitVars, lockVars, saveVars, plugVars>>

SpecIdem == Init /\ [][NextIdem]_vars

(* Calls of _with_retry.                                                    *)
NextRetry ==
    \/ \E n \in MaxRetriesValues : NewAdapter(n) /\ UNCHANGED <<dispVars, combVars, idemVars, webVars, keyVars, orderVars, subVars, emitVars, lockVars, saveVars, plugVars>>
    \/ \E m \in MaxRetriesArgs : RetryBegin(m) /\ UNCHANGED <<dispVars, combVars, idemVars, webVars, keyVars, orderVars, subVars, emitVars, lockVars, saveVars, plugVars>>
    \/ \E out \in RetryOutcomes(attempt) :
          RetryAttempt(out) /\ UNCHANGED <<dispVars, combVars, idemVars, webVars, keyVars, orderVars, subVars, emitVars, lockVars, saveVars, plugVars>>
    \/ RetrySleep /\ UNCHANGED <<dispVars, combVars, idemVars, webVars, keyVars, orderVars, subVars, emitVars, lockVars, saveVars, plugVars>>
    \/ RetryExhausted /\ UNCHANGED <<dispVars, combVars, idemVars, webVars, keyVars, orderVars, subVars, emitVars, lockVars, saveVars, plugVars>>
    \/ RetryReturn /\ UNCHANGED <<dispVars, combVars, idemVars, webVars, keyVars, orderVars, subVars, emitVars, lockVars, saveVars, plugVars>>

SpecRetry == Init /\ [][NextRetry]_vars

-----------------------------------------------------------------------------
(* Requests handed to WebhookService.process, one at a time.                *)
NextWebhook ==
    \/ \E h \in WebhookHandlers, s \in Secrets :
          register_handler(h, s) /\ UNCHANGED <<dispVars, combVars, idemVars, retryVars, keyVars, orderVars, subVars, emitVars, lockVars, saveVars, plugVars>>
    \/ \E p \in Providers, b \in Payloads, s \in Signatures :
          ProcessBegin(p, b, s) /\ UNCHANGED <<dispVars, combVars, idemVars, retryVars, keyVars, orderVars, subVars, emitVars, lockVars, saveVars, plugVars>>
    \/ wpc = "verify" /\ \E out \in VerifyOutcomes(whandlers[wprovider], wpayload, wsignature, SecretOf(wprovider)) :
          ProcessVerify(out) /\ UNCHANGED <<dispVars, combVars, idemVars, retryVars, keyVars, orderVars, subVars, emitVars, lockVars, saveVars, plugVars>>
    \/ ProcessJson /\ UNCHANGED <<dispVars, combVars, idemVars, retryVars, keyVars, orderVars, subVars, emitVars, lockVars, saveVars, plugVars>>
    \/ wpc = "parse" /\ \E out \in ParseEventOutcomes(whandlers[wprovider], wdata[1]) :
          ProcessParseEvent(out) /\ UNCHANGED <<dispVars, combVars, idemVars, retryVars, keyVars, orderVars, subVars, emitVars, lockVars, saveVars, plugVars>>
    \/ wpc = "handle" /\ \E out \in HandleOutcomes(whandlers[wprovider], wevent[1]) :
          ProcessHandle(out) /\ UNCHANGED <<dispVars, combVars, idemVars, retryVars, keyVars, orderVars, subVars, emitVars, lockVars, saveVars, plugVars>>
    \/ ProcessReturn /\ UNCHANGED <<dispVars, combVars, idemVars, retryVars, keyVars, orderVars, subVars, emitVars, lockVars, saveVars, plugVars>>

SpecWebhook == Init /\ [][NextWebhook]_vars

-----------------------------------------------------------------------------
(* Pairs of calls of generate_key on every pair of argument lists.          *)
InitKeySpec ==
    /\ InitDispatch
    /\ InitCombine
    /\ InitIdem
    /\ InitRetry
    /\ InitWebhook
    /\ InitKeyInputs
    /\ InitOrder
    /\ InitSubscriptions
    /\ InitEmit
    /\ InitLock
    /\ InitSave
    /\ InitPlugins

NextKey == GenerateKeys /\ UNCHANGED <<dispVars, combVars, idemVars, retryVars, webVars, orderVars, subVars, emitVars, lockVars, saveVars, plugVars>>

SpecKey == InitKeySpec /\ [][NextKey]_vars

(* Registrations, unregistrations and dispatches whose handlers all accept  *)
(* the event, with the order of registration recorded.                      *)
NextOrder ==
    \/ \E h \in Handlers : RegisterInOrder(h)
          /\ UNCHANGED <<combVars, idemVars, retryVars, webVars, keyVars, subVars, emitVars, lockVars, saveVars, plugVars>>
    \/ \E h \in Handlers : UnregisterInOrder(h)
          /\ UNCHANGED <<combVars, idemVars, retryVars, webVars, keyVars, subVars, emitVars, lockVars, saveVars, plugVars>>
    \/ \E n \in EventNames : DispatchBegin(Event(n))
          /\ UNCHANGED <<combVars, idemVars, retryVars, webVars, keyVars, orderVars, subVars, emitVars, lockVars, saveVars, plugVars>>
    \/ DispatchExhausted /\ UNCHANGED <<combVars, idemVars, retryVars, webVars, keyVars, orderVars, subVars, emitVars, lockVars, saveVars, plugVars>>
    \/ HandlerReturns(success_result(None), FALSE)
          /\ UNCHANGED <<combVars, idemVars, retryVars, webVars, keyVars, orderVars, subVars, emitVars, lockVars, saveVars, plugVars>>
    \/ DispatchReturn /\ UNCHANGED <<combVars, idemVars, retryVars, webVars, keyVars, orderVars, subVars, emitVars, lockVars, saveVars, plugVars>>

SpecOrder == Init /\ [][NextOrder]_vars

(* Calls of _with_idempotency made at the same time by several processes    *)
(* with one idempotency key on a shared cache: the steps of different       *)
(* callers interleave.                                                      *)
SharedKey == "k1"

NextIdemConcurrent ==
    \/ \E p \in Callers :
          IdemBegin(p, Some(SharedKey), TRUE)
             /\ UNCHANGED <<dispVars, combVars, retryVars, webVars, keyVars, orderVars, subVars, emitVars, lockVars, saveVars, plugVars>>
    \/ \E p \in Callers : \E out \in OperationOutcomes(invocations + 1) :
          IdemOperation(p, out)
             /\ UNCHANGED <<dispVars, combVars, retryVars, webVars, keyVars, orderVars, subVars, emitVars, lockVars, saveVars, plugVars>>
    \/ \E p \in Callers : IdemStore(p)
             /\ UNCHANGED <<dispVars, combVars, retryVars, webVars, keyVars, orderVars, subVars, emitVars, lockVars, saveVars, plugVars>>
    \/ \E p \in Callers : IdemReturn(p)
             /\ UNCHANGED <<dispVars, combVars, retryVars, webVars, keyVars, orderVars, subVars, emitVars, lockVars, saveVars, plugVars>>
    \/ Expire(SharedKey)
             /\ UNCHANGED <<dispVars, combVars, retryVars, webVars, keyVars, orderVars, subVars, emitVars, lockVars, saveVars, plugVars>>

SpecIdemConcurrent == Init /\ [][NextIdemConcurrent]_vars

-----------------------------------------------------------------------------
(* Operations on subscriptions, one at a time.                              *)
NextSubscriptions ==
    \/ \E p \in PlanPeriods : create_subscription(p) /\ UNCHANGED <<dispVars, combVars, idemVars, retryVars, webVars, keyVars, orderVars, emitVars, lockVars, saveVars, plugVars>>
    \/ \E id \in SubscriptionIds : activate_subscription(id) /\ UNCHANGED <<dispVars, combVars, idemVars, retryVars, webVars, keyVars, orderVars, emitVars, lockVars, saveVars, plugVars>>
    \/ \E id \in SubscriptionIds : cancel_subscription(id) /\ UNCHANGED <<dispVars, combVars, idemVars, retryVars, webVars, keyVars, orderVars, emitVars, lockVars, saveVars, plugVars>>
    \/ \E id \in SubscriptionIds : renew_subscription(id) /\ UNCHANGED <<dispVars, combVars, idemVars, retryVars, webVars, keyVars, orderVars, emitVars, lockVars, saveVars, plugVars>>
    \/ expire_subscriptions /\ UNCHANGED <<dispVars, combVars, idemVars, retryVars, webVars, keyVars, orderVars, emitVars, lockVars, saveVars, plugVars>>
    \/ \E id \in SubscriptionIds, d \in ModelDurations : CallActivate(id, d) /\ UNCHANGED <<dispVars, combVars, idemVars, retryVars, webVars, keyVars, orderVars, emitVars, lockVars, saveVars, plugVars>>
    \/ \E id \in SubscriptionIds : CallCancel(id) /\ UNCHANGED <<dispVars, combVars, idemVars, retryVars, webVars, keyVars, orderVars, emitVars, lockVars, saveVars, plugVars>>
    \/ \E id \in SubscriptionIds : CallExpire(id) /\ UNCHANGED <<dispVars, combVars, idemVars, retryVars, webVars, keyVars, orderVars, emitVars, lockVars, saveVars, plugVars>>
    \/ \E id \in SubscriptionIds : CallPause(id) /\ UNCHANGED <<dispVars, combVars, idemVars, retryVars, webVars, keyVars, orderVars, emitVars, lockVars, saveVars, plugVars>>
    \/ Tick /\ UNCHANGED <<dispVars, combVars, idemVars, retryVars, webVars, keyVars, orderVars, emitVars, lockVars, saveVars, plugVars>>

SpecSubscriptions == Init /\ [][NextSubscriptions]_vars

(* The two dispatchers side by side: every handler is registered with both, *)
(* an event is dispatched, then an event is emitted, and the two outcomes   *)
(* are at hand together before both calls return.                           *)
EquivEvents == {Event(n) : n \in EventNames} \cup {DomainEvent(n) : n \in EventNames}

RegisterWithBoth(h) ==
    /\ epc = "idle"
    /\ Register(h)
    /\ domain_register(get_handled_event_class(h), h)

NextEquiv ==
    \/ \E h \in Handlers : RegisterWithBoth(h) /\ UNCHANGED <<combVars, idemVars, retryVars, webVars, keyVars, orderVars, subVars, lockVars, saveVars, plugVars>>
    \/ \E e \in EquivEvents :
          /\ epc = "idle"
          /\ DispatchBegin(e)
          /\ behaviour' = <<>>
          /\ UNCHANGED <<dhandlers, eevent, epc, eidx, eresults, ecalls, eret>>
          /\ UNCHANGED <<combVars, idemVars, retryVars, webVars, keyVars, orderVars, subVars, lockVars, saveVars, plugVars>>
    \/ /\ InLoop
       /\ HasIsPropagationStopped(event)
       /\ DispatchBreak
       /\ UNCHANGED emitVars
       /\ UNCHANGED <<combVars, idemVars, retryVars, webVars, keyVars, orderVars, subVars, lockVars, saveVars, plugVars>>
    \/ DispatchAttributeError /\ UNCHANGED emitVars /\ UNCHANGED <<combVars, idemVars, retryVars, webVars, keyVars, orderVars, subVars, lockVars, saveVars, plugVars>>
    \/ DispatchExhausted /\ UNCHANGED emitVars /\ UNCHANGED <<combVars, idemVars, retryVars, webVars, keyVars, orderVars, subVars, lockVars, saveVars, plugVars>>
    \/ /\ InLoop
       /\ HasIsPropagationStopped(event)
       /\ \E b \in HandlerBehaviours(Current) :
             /\ BehavesAs(Current, b)
             /\ DispatchHandler(b)
             /\ behaviour' = Recorded(Current, b)
       /\ UNCHANGED <<dhandlers, eevent, epc, eidx, eresults, ecalls, eret>>
       /\ UNCHANGED <<combVars, idemVars, retryVars, webVars, keyVars, orderVars, subVars, lockVars, saveVars, plugVars>>
    \/ \E e \in EquivEvents :
          /\ pc = "done"
          /\ EmitBegin(e)
          /\ UNCHANGED dispVars
          /\ UNCHANGED <<combVars, idemVars, retryVars, webVars, keyVars, orderVars, subVars, lockVars, saveVars, plugVars>>
    \/ /\ EmitInLoop
       /\ \E b \in HandlerBehaviours(EmitCurrent) :
             /\ BehavesAs(EmitCurrent, b)
             /\ EmitHandler(b)
             /\ behaviour' = Recorded(EmitCurrent, b)
       /\ UNCHANGED dispVars
       /\ UNCHANGED <<combVars, idemVars, retryVars, webVars, keyVars, orderVars, subVars, lockVars, saveVars, plugVars>>
    \/ EmitExhausted /\ UNCHANGED dispVars /\ UNCHANGED <<combVars, idemVars, retryVars, webVars, keyVars, orderVars, subVars, lockVars, saveVars, plugVars>>
    \/ EmitReturn /\ UNCHANGED dispVars /\ UNCHANGED <<combVars, idemVars, retryVars, webVars, keyVars, orderVars, subVars, lockVars, saveVars, plugVars>>
    \/ /\ epc = "idle"
       /\ DispatchReturn
       /\ UNCHANGED emitVars
       /\ UNCHANGED <<combVars, idemVars, retryVars, webVars, keyVars, orderVars, subVars, lockVars, saveVars, plugVars>>

SpecEquiv == Init /\ [][NextEquiv]_vars

(* Processes that enter `with redis_client.lock(key)` on one key.           *)
NextLock ==
    \/ \E p \in Lockers, bt \in BlockingTimeouts : LockEnter(p, bt) /\ UNCHANGED <<dispVars, combVars, idemVars, retryVars, webVars, keyVars, orderVars, subVars, emitVars, saveVars, plugVars>>
    \/ \E p \in Lockers : LockAcquired(p) /\ UNCHANGED <<dispVars, combVars, idemVars, retryVars, webVars, keyVars, orderVars, subVars, emitVars, saveVars, plugVars>>
    \/ \E p \in Lockers : LockWait(p) /\ UNCHANGED <<dispVars, combVars, idemVars, retryVars, webVars, keyVars, orderVars, subVars, emitVars, saveVars, plugVars>>
    \/ \E p \in Lockers : LockNotAcquired(p) /\ UNCHANGED <<dispVars, combVars, idemVars, retryVars, webVars, keyVars, orderVars, subVars, emitVars, saveVars, plugVars>>
    \/ \E p \in Lockers, out \in BodyOutcomes : LockBody(p, out) /\ UNCHANGED <<dispVars, combVars, idemVars, retryVars, webVars, keyVars, orderVars, subVars, emitVars, saveVars, plugVars>>
    \/ \E p \in Lockers : LockFinally(p) /\ UNCHANGED <<dispVars, combVars, idemVars, retryVars, webVars, keyVars, orderVars, subVars, emitVars, saveVars, plugVars>>
    \/ \E p \in Lockers : LockReturn(p) /\ UNCHANGED <<dispVars, combVars, idemVars, retryVars, webVars, keyVars, orderVars, subVars, emitVars, saveVars, plugVars>>
    \/ LockExpires /\ UNCHANGED <<dispVars, combVars, idemVars, retryVars, webVars, keyVars, orderVars, subVars, emitVars, saveVars, plugVars>>

SpecLock == Init /\ [][NextLock]_vars

(* Writers that load the entity and save it, each in its own session.       *)
NextSave ==
    \/ \E w \in Writers : LoadEntity(w) /\ UNCHANGED <<dispVars, combVars, idemVars, retryVars, webVars, keyVars, orderVars, subVars, emitVars, lockVars, plugVars>>
    \/ \E w \in Writers : \E ev \in ExpectedVersions(w), cv \in CurrentVersions(w) :
          SaveCheck(w, ev, cv) /\ UNCHANGED <<dispVars, combVars, idemVars, retryVars, webVars, keyVars, orderVars, subVars, emitVars, lockVars, plugVars>>
    \/ \E w \in Writers : SaveCommit(w) /\ UNCHANGED <<dispVars, combVars, idemVars, retryVars, webVars, keyVars, orderVars, subVars, emitVars, lockVars, plugVars>>
    \/ \E w \in Writers : SaveReturn(w) /\ UNCHANGED <<dispVars, combVars, idemVars, retryVars, webVars, keyVars, orderVars, subVars, emitVars, lockVars, plugVars>>
    \/ DeleteEntity /\ UNCHANGED <<dispVars, combVars, idemVars, retryVars, webVars, keyVars, orderVars, subVars, emitVars, lockVars, plugVars>>

SpecSave == Init /\ [][NextSave]_vars

(* Operations of one PluginManager, one at a time.                          *)
NextPlugins ==
    \/ \E name \in PluginNames : register_plugin(name) /\ UNCHANGED <<dispVars, combVars, idemVars, retryVars, webVars, keyVars, orderVars, subVars, emitVars, lockVars, saveVars>>
    \/ \E name \in PluginNames : initialize_plugin(name) /\ UNCHANGED <<dispVars, combVars, idemVars, retryVars, webVars, keyVars, orderVars, subVars, emitVars, lockVars, saveVars>>
    \/ \E name \in PluginNames, hook \in HookOutcomes : enable_plugin(name, hook) /\ UNCHANGED <<dispVars, combVars, idemVars, retryVars, webVars, keyVars, orderVars, subVars, emitVars, lockVars, saveVars>>
    \/ \E name \in PluginNames, hook \in HookOutcomes : disable_plugin(name, hook) /\ UNCHANGED <<dispVars, combVars, idemVars, retryVars, webVars, keyVars, orderVars, subVars, emitVars, lockVars, saveVars>>

SpecPlugins == Init /\ [][NextPlugins]_vars

(* Observations used by the properties.                                    *)
IsCanHandleCall(c) == c.op = "can_handle"

(* The handlers a dispatch has invoked so far, in the order of invocation.  *)
InvokedHandlers ==
    LET cs == SelectSeq(calls, IsCanHandleCall) IN [i \in 1..Len(cs) |-> cs[i].h]

RegisteredFor(name) == {h \in Registered : get_handled_event_class(h) = name}

DistinctPriorities(name) ==
    \A g, h \in RegisteredFor(name) : g # h => get_priority(g) # get_priority(h)

(* C1: handlers registered for one event name with distinct priorities are  *)
(* invoked by one dispatch in strictly descending priority order, whatever  *)
(* the order of registration; without a stop all of them are invoked.       *)
C1_DescendingPriorityOrder ==
    (pc \in {"loop", "done"} /\ DistinctPriorities(event.name)) =>
        /\ \A i, j \in 1..Len(InvokedHandlers) :
              i < j => get_priority(InvokedHandlers[i]) > get_priority(InvokedHandlers[j])
        /\ (pc = "done" /\ ~event.stopped) =>
              {InvokedHandlers[i] : i \in 1..Len(InvokedHandlers)} = RegisteredFor(event.name)

C1_Witness ==
    /\ pc = "done"
    /\ DistinctPriorities(event.name)
    /\ InvokedHandlers = <<2, 3, 1>>

(* C2: once the event's propagation is stopped, the running dispatch        *)
(* invokes no further can_handle or handle and collects no further result:  *)
(* its only step is to leave the loop.                                      *)
C2_NoHandlerAfterStop ==
    [][(pc = "loop" /\ event.stopped) =>
          (calls' = calls /\ results' = results /\ pc' = "done")]_vars

C2_Witness ==
    /\ pc = "done"
    /\ event.stopped
    /\ calls # <<>>
    /\ event.name \in DOMAIN handlers
    /\ idx <= Len(handlers[event.name])

RaisedCalls == {i \in 1..Len(calls) : calls[i].out = "raise"}

(* C3: an exception raised by can_handle or handle never leaves dispatch;   *)
(* it is recorded as a failed result of type "handler_exception" carrying   *)
(* the message, the loop goes on with the next handler, and the combined    *)
(* result is a failure whose error contains every thrown message.           *)
C3_ExceptionsContained ==
    /\ [](ret.kind # "raise")
    /\ [][(Len(calls') > Len(calls) /\ calls'[Len(calls')].out = "raise") =>
             /\ results' = Append(results, [success |-> FALSE, data |-> None,
                                            error |-> calls'[Len(calls')].msg,
                                            error_type |-> Some("handler_exception")])
             /\ pc' = "loop"
             /\ idx' = idx + 1]_vars
    /\ []((pc = "done" /\ RaisedCalls # {}) =>
             /\ ret.kind = "return"
             /\ ~ret.value.success
             /\ \A i \in RaisedCalls : Contains(ret.value.error[1], calls[i].msg[1])
             /\ ~event.stopped => Len(InvokedHandlers) = Len(handlers[event.name]))

C3_Witness ==
    /\ pc = "done"
    /\ ret.kind = "return"
    /\ ~ret.value.success
    /\ \E i, j \in 1..Len(calls) :
          /\ i < j
          /\ calls[i].out = "raise"
          /\ calls[i].msg = Some("boom")
          /\ calls[j].op = "handle"
          /\ calls[j].out = "return"
          /\ calls[j].h # calls[i].h

(* C4: a dispatch in which no handler produced a result returns the         *)
(* no_handler failure: no handler registered for the name (never, or no     *)
(* longer), or every can_handle returned false; handle is only invoked      *)
(* after the same handler's can_handle returned true.                       *)
C4_NoHandlerResult ==
    /\ (pc = "done" /\ results = <<>>) => ret = Return(no_handler)
    /\ (pc = "done" /\ ~has_handlers(event.name)) =>
           (ret = Return(no_handler) /\ calls = <<>>)
    /\ (pc = "done" /\ \A i \in 1..Len(calls) : calls[i].out = "false") =>
           ret = Return(no_handler)
    /\ \A i \in 1..Len(calls) :
           calls[i].op = "handle" =>
               /\ i > 1
               /\ calls[i - 1].op = "can_handle"
               /\ calls[i - 1].out = "true"
               /\ calls[i - 1].h = calls[i].h

C4_Witness ==
    /\ pc = "done"
    /\ Len(calls) >= 2
    /\ \A i \in 1..Len(calls) : calls[i].out = "false"
    /\ ret = Return(no_handler)

-----------------------------------------------------------------------------
(* Positions of cin whose result carries data that is not None.             *)
DataPositions == {i \in 1..Len(cin) : cin[i].data # None}

(* C5: combine of a non-empty list succeeds iff every result succeeded, and *)
(* then its data is the list of the non-null data in the order collected.   *)
C5_CombineSuccess ==
    (cout.kind = "return" /\ cin # <<>>) =>
        /\ cout.value.success <=> (\A i \in 1..Len(cin) : cin[i].success)
        /\ cout.value.success =>
              /\ cout.value.data # None
              /\ Len(cout.value.data[1]) = Cardinality(DataPositions)
              /\ \A i \in DataPositions :
                    cout.value.data[1][Cardinality({j \in DataPositions : j <= i})]
                        = cin[i].data[1]
              /\ cout.value.error = None

C5_Witness ==
    /\ cout.kind = "return"
    /\ cout.value.success
    /\ Len(cin) = 3
    /\ cin[1].data = None
    /\ cin[2].data = Some("")
    /\ cin[3].data = Some("d1")

(* The messages of rs joined with "; ".                                     *)
RECURSIVE SemicolonJoined(_)
SemicolonJoined(rs) ==
    IF rs = <<>> THEN ""
    ELSE IF Len(rs) = 1 THEN rs[1].error[1]
         ELSE rs[1].error[1] \o "; " \o SemicolonJoined(Tail(rs))

FailedPositions == {i \in 1..Len(cin) : ~cin[i].success}

FirstFailed == cin[CHOOSE i \in FailedPositions : \A j \in FailedPositions : i <= j]

ExpectedErrorType ==
    IF FirstFailed.error_type = None \/ FirstFailed.error_type = Some("")
    THEN Some("handler_error")
    ELSE FirstFailed.error_type

(* C6 as stated: with a failed result, combine fails without data, its      *)
(* error is the messages of all failed results joined with "; " in order,   *)
(* its errorType that of the first failed result ("handler_error" if none). *)
C6_AllMessagesJoined ==
    (cout.kind = "return" /\ FailedPositions # {}) =>
        /\ ~cout.value.success
        /\ cout.value.data = None
        /\ cout.value.error =
              Some(SemicolonJoined(SelectSeq(cin, LAMBDA r : ~r.success /\ r.error # None)))
        /\ cout.value.error_type = ExpectedErrorType

(* C6 amended: the error is the non-empty messages of the failed results    *)
(* joined with "; " in order.                                               *)
C6_NonEmptyMessagesJoined ==
    (cout.kind = "return" /\ FailedPositions # {}) =>
        /\ ~cout.value.success
        /\ cout.value.data = None
        /\ cout.value.error =
              Some(SemicolonJoined(SelectSeq(cin, LAMBDA r :
                      ~r.success /\ r.error # None /\ r.error # Some(""))))
        /\ cout.value.error_type = ExpectedErrorType

C6_Witness ==
    /\ cout.kind = "return"
    /\ cin = <<error_result("e2", "validation_error"), success_result(Some("d1")),
               error_result("e1", "handler_error")>>
    /\ cout.value = EventResult(FALSE, None, Some("e2; e1"), Some("validation_error"))

-----------------------------------------------------------------------------
(* C7: in calls made one after the other, a call with a key for which the   *)
(* cache holds a stored response returns the response rebuilt from that     *)
(* payload without invoking the operation; the operation only ever runs     *)
(* under a key for which nothing is stored.                                 *)
C7_CachedResponseReplayed ==
    /\ [][\A p \in Callers : \A k \in IdemKeys :
            (/\ ipc[p] = "idle"
             /\ ipc'[p] # "idle"
             /\ ikey'[p] = Some(k)
             /\ isvc'[p]
             /\ RedisKey(k) \in DOMAIN cache)
            => /\ ipc'[p] = "done"
               /\ iret'[p].kind = "return"
               /\ iret'[p].value.success
               /\ iret'[p].value.data = cache[RedisKey(k)].value.data
               /\ iret'[p].value.error = cache[RedisKey(k)].value.error
               /\ iret'[p].value.error_code = cache[RedisKey(k)].value.error_code
               /\ invocations' = invocations]_vars
    /\ [](\A p \in Callers :
            (ipc[p] = "operation" /\ isvc[p] /\ Truthy(ikey[p]))
            => RedisKey(ikey[p][1]) \notin DOMAIN cache)

C7_Witness ==
    \E p \in Callers :
        /\ ipc[p] = "done"
        /\ isvc[p]
        /\ ikey[p] = Some("k1")
        /\ iresp[p] = None
        /\ RedisKey("k1") \in DOMAIN cache
        /\ iret[p].kind = "return"
        /\ iret[p].value.data = cache[RedisKey("k1")].value.data
        /\ invocations = 1

(* C8: a failed response is returned without touching the cache, every      *)
(* entry of the cache holds a successful response, and after a failed call  *)
(* the key is still free, so that the next call with it runs the operation. *)
C8_FailedResponseNotCached ==
    /\ [](\A rk \in DOMAIN cache : cache[rk].value.success)
    /\ [][\A p \in Callers :
            (ipc[p] = "store" /\ ipc'[p] = "done" /\ ~iresp[p][1].success)
            => (cache' = cache /\ iret'[p] = Return(iresp[p][1]))]_vars
    /\ [](\A p \in Callers :
            (/\ ipc[p] = "done"
             /\ iresp[p] # None
             /\ ~iresp[p][1].success)
            => RedisKey(ikey[p][1]) \notin DOMAIN cache)
    /\ [][\A p \in Callers : \A k \in IdemKeys :
            (/\ ipc[p] = "idle"
             /\ ipc'[p] # "idle"
             /\ ikey'[p] = Some(k)
             /\ isvc'[p]
             /\ RedisKey(k) \notin DOMAIN cache)
            => ipc'[p] = "operation"]_vars

C8_Witness ==
    \E p \in Callers :
        /\ ipc[p] = "done"
        /\ ikey[p] = Some("k1")
        /\ iresp[p] # None
        /\ iret[p].kind = "return"
        /\ ~iret[p].value.success
        /\ DOMAIN cache = {}
        /\ invocations = 2

-----------------------------------------------------------------------------
AllTransient(s) ==
    \A i \in 1..Len(s) : s[i].kind = "raise" /\ s[i].exc.cls = "TransientError"

(* C9: while the operation has raised k <= retries transient errors and     *)
(* nothing else, _with_retry keeps going; when it returns, it returns the   *)
(* response of the last invocation, after k transient failures and exactly  *)
(* k + 1 invocations.                                                       *)
C9_RetryUntilSuccess ==
    /\ (rpc # "idle" /\ AllTransient(outcomes) /\ Len(outcomes) <= retries)
           => (rpc \in {"attempt", "sleep"} /\ rret = NoOutcome)
    /\ (rpc = "done" /\ rret.kind = "return")
           => /\ Len(outcomes) >= 1
              /\ rret = outcomes[Len(outcomes)]
              /\ AllTransient(SubSeq(outcomes, 1, Len(outcomes) - 1))
              /\ Len(outcomes) - 1 <= retries

C9_Witness ==
    /\ rpc = "done"
    /\ retries = 3
    /\ Len(outcomes) = 3
    /\ rret.kind = "return"
    /\ rret.value.success

(* C10: with max_retries = n >= 0 and an operation that raises a transient  *)
(* error on every invocation, _with_retry ends after exactly n + 1          *)
(* invocations by raising the error of the last invocation.                 *)
C10_RetryExhausted ==
    /\ (rpc = "done" /\ retries >= 0 /\ AllTransient(outcomes))
           => /\ Len(outcomes) = retries + 1
              /\ rret = Raise(outcomes[Len(outcomes)].exc)
    /\ (rret.kind = "raise" /\ rret.exc.cls = "TransientError")
           => Len(outcomes) = retries + 1

C10_Witness ==
    /\ rpc = "done"
    /\ retries = 2
    /\ Len(outcomes) = 3
    /\ AllTransient(outcomes)
    /\ rret.kind = "raise"
    /\ rret.exc.cls = "TransientError"
    /\ rret.exc.seq = 2


-----------------------------------------------------------------------------
NonTransientRaise(o) == o.kind = "raise" /\ o.exc.cls # "TransientError"

(* C11: an error that is not a TransientError is never retried: the         *)
(* invocation that raises it ends _with_retry at once with that very error, *)
(* without a backoff sleep; it is the last invocation of the call, every    *)
(* invocation before it raised a transient error, and only those were       *)
(* followed by a sleep.                                                     *)
C11_NonTransientNotRetried ==
    /\ [][(Len(outcomes') > Len(outcomes) /\ NonTransientRaise(outcomes'[Len(outcomes')])) =>
             /\ rret' = outcomes'[Len(outcomes')]
             /\ rpc' = "done"
             /\ sleeps' = sleeps]_vars
    /\ [][rpc = "done" => (rpc' = "idle" /\ Len(outcomes') <= Len(outcomes)
                                        /\ Len(sleeps') <= Len(sleeps))]_vars
    /\ [](\A i \in 1..Len(outcomes) :
             NonTransientRaise(outcomes[i]) =>
                 /\ i = Len(outcomes)
                 /\ rpc = "done"
                 /\ rret = outcomes[i]
                 /\ AllTransient(SubSeq(outcomes, 1, i - 1))
                 /\ Len(sleeps) = i - 1)

C11_Witness ==
    /\ rpc = "done"
    /\ retries = 3
    /\ Len(outcomes) = 3
    /\ Len(sleeps) = 2
    /\ rret.kind = "raise"
    /\ rret.exc.cls = "ValueError"


-----------------------------------------------------------------------------
(* The operations of the stages the running call of process has run.        *)
StageOps == [i \in 1..Len(wcalls) |-> wcalls[i].op]

RanStage(op) == \E i \in 1..Len(wcalls) : wcalls[i].op = op

(* C12: when verify_signature returns false, process ends at once with the  *)
(* failure "Invalid signature"; neither the JSON parse nor parse_event nor  *)
(* handle is run for that request, and no handler records an event.         *)
C12_InvalidSignatureRejected ==
    /\ [](\A i \in 1..Len(wcalls) :
             (wcalls[i].op = "verify_signature" /\ wcalls[i].out = Return(FALSE)) =>
                 /\ i = Len(wcalls)
                 /\ wpc = "done"
                 /\ wret = Return(WebhookResult(FALSE, None, Some("Invalid signature")))
                 /\ ~RanStage("json.loads")
                 /\ ~RanStage("parse_event")
                 /\ ~RanStage("handle"))
    /\ [][(wpc \in {"verify", "json", "parse"}) => (HandledEvents' = HandledEvents)]_vars
    /\ [][(wpc = "done" /\ ~RanStage("handle")) => (HandledEvents' = HandledEvents)]_vars

C12_Witness ==
    /\ wpc = "done"
    /\ wprovider = "mock"
    /\ wsignature = "bad_signature"
    /\ wpayload = Utf8Json(JsonObject(Some("evt_123"), Some("payment.succeeded"),
                     Some(JsonData(Some(JsonInt(2999)), Some("usd"), Some("pi_123")))))
    /\ StageOps = <<"lookup", "verify_signature">>
    /\ wret.kind = "return"
    /\ ~wret.value.success
    /\ wret.value.error = Some("Invalid signature")
    /\ HandledEvents = <<>>

(* C13: whatever the provider, the payload, the signature and the behaviour *)
(* of the handler's methods, process ends by returning a WebhookResult; it  *)
(* never raises.                                                            *)
C13_ProcessNeverRaises ==
    /\ wret.kind # "raise"
    /\ wpc = "done" => (wret.kind = "return" /\ wret.value.success \in BOOLEAN)

StageOrder == <<"lookup", "verify_signature", "json.loads", "parse_event", "handle">>

(* A stage fails when it finds no handler, rejects the signature or raises. *)
StageFailed(c) ==
    \/ c.out.kind = "raise"
    \/ c.op = "lookup" /\ c.out.value = None
    \/ c.op = "verify_signature" /\ c.out.value = FALSE

(* C14: the stages of one call run in the order lookup, verify_signature,   *)
(* JSON parse, parse_event, handle, each at most once; a stage that fails   *)
(* is the last one run and ends the call with a failure WebhookResult; when *)
(* none fails all five run and process returns what handle returned.        *)
C14_StagesInOrder ==
    /\ Len(wcalls) <= Len(StageOrder)
    /\ \A i \in 1..Len(wcalls) : wcalls[i].op = StageOrder[i]
    /\ \A i \in 1..Len(wcalls) :
          StageFailed(wcalls[i]) =>
              /\ i = Len(wcalls)
              /\ wpc = "done"
              /\ wret.kind = "return"
              /\ ~wret.value.success
    /\ (wpc = "done" /\ \A i \in 1..Len(wcalls) : ~StageFailed(wcalls[i])) =>
          /\ StageOps = StageOrder
          /\ wret = wcalls[Len(wcalls)].out

ErrorPrefix(op) == IF op = "parse_event" THEN "Failed to parse event: " ELSE "Handler error: "

(* C15: an exception raised by parse_event or by handle does not leave      *)
(* process: the call ends with a failure WebhookResult whose error is the   *)
(* stage's prefix followed by the exception's message, and after a raising  *)
(* parse_event handle is not called.                                        *)
C15_HandlerExceptionsConverted ==
    \A i \in 1..Len(wcalls) :
        (wcalls[i].op \in {"parse_event", "handle"} /\ wcalls[i].out.kind = "raise") =>
            /\ i = Len(wcalls)
            /\ wpc = "done"
            /\ wret.kind = "return"
            /\ ~wret.value.success
            /\ wret.value.error = Some(ErrorPrefix(wcalls[i].op) \o wcalls[i].out.exc.msg)
            /\ wcalls[i].op = "parse_event" => ~RanStage("handle")

C15_Witness ==
    /\ wpc = "done"
    /\ StageOps = StageOrder
    /\ wcalls[5].out = Raise([cls |-> "ValueError", msg |-> "boom"])
    /\ wret = Return(WebhookResult(FALSE, None, Some("Handler error: boom")))

KnownTypeStrings == {WebhookEventType[n] : n \in DOMAIN WebhookEventType \ {"UNKNOWN"}}

(* The amount of a Decimal in minor units (hundredths).                     *)
MinorUnits(d) == d.coef * 10^(d.exp + 2)

(* The request is for a registered mock handler that is not set to fail,    *)
(* carries the valid signature and a JSON object in the expected format.    *)
WellFormedMockRequest ==
    /\ wprovider = "mock"
    /\ "mock" \in DOMAIN whandlers
    /\ ~whandlers["mock"].should_fail
    /\ wsignature = "valid_signature"
    /\ wpayload.enc = "utf-8"
    /\ wpayload.json
    /\ wpayload.doc.t = "object"
    /\ (wpayload.doc.data # None /\ wpayload.doc.data[1].amount # None)
           => wpayload.doc.data[1].amount[1].t = "int"

-----------------------------------------------------------------------------
(* C17: generate_key is a function of its arguments that never maps two     *)
(* different argument lists to one key: equal arguments give equal keys,    *)
(* and arguments that differ in a value or in the way the list is split     *)
(* give different keys.                                                     *)
C17_KeyDeterminesArguments ==
    kout # None => ((kin[1] = kin[2]) <=> (kout[1][1] = kout[1][2]))


-----------------------------------------------------------------------------
(* Position of handler h in the sequence s of handlers (0 when absent).     *)
PositionIn(s, h) == IF \E i \in 1..Len(s) : s[i] = h
                    THEN CHOOSE i \in 1..Len(s) : s[i] = h
                    ELSE 0

(* The handlers of the list kept for an event name, in list order.          *)
ListedHandlers(name) == [i \in 1..Len(HandlerList(name)) |-> HandlerList(name)[i][2]]

InRegistrationOrder(s) ==
    \A i, j \in 1..Len(s) :
        (i < j /\ get_priority(s[i]) = get_priority(s[j])) =>
            PositionIn(regOrder, s[i]) < PositionIn(regOrder, s[j])

(* C18: after any sequence of register and unregister calls, handlers of    *)
(* equal priority stand in the list of their event, and are invoked by a    *)
(* dispatch, in the order in which they were registered; an unregister      *)
(* takes one entry out of the list and leaves the others in their order.    *)
C18_EqualPriorityInRegistrationOrder ==
    /\ [](\A n \in EventNames : InRegistrationOrder(ListedHandlers(n)))
    /\ []((pc \in {"loop", "done"}) =>
             /\ InRegistrationOrder(InvokedHandlers)
             /\ InvokedHandlers = SubSeq(ListedHandlers(event.name), 1, Len(InvokedHandlers))
             /\ (pc = "done") => InvokedHandlers = ListedHandlers(event.name))
    /\ [][\A n \in EventNames :
             Len(ListedHandlers(n)') < Len(ListedHandlers(n)) =>
                 \E k \in 1..Len(ListedHandlers(n)) :
                     ListedHandlers(n)' = SubSeq(ListedHandlers(n), 1, k - 1)
                                          \o SubSeq(ListedHandlers(n), k + 1, Len(ListedHandlers(n)))]_vars

C18_Witness ==
    /\ pc = "done"
    /\ regOrder = <<4, 1, 3>>
    /\ InvokedHandlers = <<4, 3, 1>>


-----------------------------------------------------------------------------
(* Caller p writes the cache in this step: its store step ends by returning *)
(* a successful response.                                                   *)
WritesEntry(p) ==
    /\ ipc[p] = "store"
    /\ ipc'[p] = "done"
    /\ iret'[p].kind = "return"
    /\ iret'[p].value.success

(* C19: whatever the interleaving of the calls of several processes that    *)
(* use one key on a shared cache, the entry of the key is written at most   *)
(* once: no call writes the entry while the cache holds one.                *)
C19_EntryWrittenAtMostOnce ==
    [][\A p \in Callers : WritesEntry(p) => (RedisKey(ikey[p][1]) \notin DOMAIN cache)]_vars


-----------------------------------------------------------------------------
AllowedTransitions ==
    {<<PENDING, ACTIVE>>, <<ACTIVE, CANCELLED>>, <<ACTIVE, EXPIRED>>,
     <<ACTIVE, PAUSED>>, <<PAUSED, ACTIVE>>}

(* C20 as stated: every change of status made by an operation is one of     *)
(* PENDING -> ACTIVE, ACTIVE -> CANCELLED, ACTIVE -> EXPIRED,               *)
(* ACTIVE -> PAUSED, PAUSED -> ACTIVE.                                      *)
C20_OnlyLifecycleTransitions ==
    \A id \in DOMAIN slog.before :
        slog.before[id] # subscriptions[id].status =>
            <<slog.before[id], subscriptions[id].status>> \in AllowedTransitions

ActivateOperations == {"activate", "activate_subscription", "renew_subscription"}
CancelOperations == {"cancel", "cancel_subscription"}

(* C20 amended: the operations set the status without looking at the        *)
(* current one: activation and renewal give ACTIVE, cancellation gives      *)
(* CANCELLED, expire gives EXPIRED and pause gives PAUSED from every        *)
(* status; expire_subscriptions moves exactly the ACTIVE rows whose         *)
(* expires_at lies in the past to EXPIRED; nothing else changes a status,   *)
(* and no row returns to PENDING.                                           *)
C20_StatusSetByOperation ==
    \A id \in DOMAIN slog.before :
        LET before == slog.before[id]
            sub    == subscriptions[id]
        IN  /\ sub.status = PENDING => before = PENDING
            /\ IF id = slog.id /\ slog.op \in ActivateOperations THEN sub.status = ACTIVE
               ELSE IF id = slog.id /\ slog.op \in CancelOperations THEN sub.status = CANCELLED
               ELSE IF id = slog.id /\ slog.op = "expire" THEN sub.status = EXPIRED
               ELSE IF id = slog.id /\ slog.op = "pause" THEN sub.status = PAUSED
               ELSE IF /\ slog.op = "expire_subscriptions"
                       /\ before = ACTIVE
                       /\ sub.expires_at # None
                       /\ sub.expires_at[1] < now
                    THEN sub.status = EXPIRED
               ELSE sub.status = before

C20_Witness ==
    /\ slog.op = "renew_subscription"
    /\ slog.id = 1
    /\ 1 \in DOMAIN slog.before
    /\ slog.before[1] = EXPIRED
    /\ subscriptions[1].status = ACTIVE
    /\ subscriptions[1].started_at = Some(400)
    /\ sret = Return(1)


-----------------------------------------------------------------------------
(* C26: _with_retry sleeps only between attempts. The i-th sleep of a call  *)
(* lasts 0.1 * 2^(i-1) seconds (100, 200, 400, ... ms); every sleep follows *)
(* a failed attempt that is not the last one allowed and is followed by the *)
(* next attempt; no sleep follows a returning attempt or the final failed   *)
(* attempt, so m transient failures followed by a return make exactly m     *)
(* sleeps and an exhausted call with max_retries = n >= 0 makes exactly n.  *)
C26_SleepsBetweenAttempts ==
    /\ [](\A i \in 1..Len(sleeps) : sleeps[i] = 100 * 2^(i - 1))
    /\ [](rpc = "sleep" => (Len(sleeps) = Len(outcomes) - 1 /\ Len(outcomes) <= retries))
    /\ []((rpc = "done" /\ rret.kind = "return") => Len(sleeps) = Len(outcomes) - 1)
    /\ []((rpc = "done" /\ retries >= 0 /\ AllTransient(outcomes)) => Len(sleeps) = retries)
    /\ [][(Len(sleeps') > Len(sleeps)) =>
             /\ rpc = "sleep"
             /\ rpc' = "attempt"
             /\ attempt' \in 1..retries
             /\ Len(sleeps') = Len(sleeps) + 1
             /\ Len(outcomes') = Len(outcomes)]_vars
    /\ [][(Len(outcomes') > Len(outcomes) /\ outcomes'[Len(outcomes')].kind = "return") =>
             (sleeps' = sleeps /\ rpc' = "done")]_vars
    /\ [][(rpc = "done") => (Len(sleeps') <= Len(sleeps))]_vars

C26_Witness ==
    /\ rpc = "done"
    /\ retries = 3
    /\ Len(outcomes) = 4
    /\ AllTransient(outcomes)
    /\ sleeps = <<100, 200, 400>>
    /\ rret.kind = "raise"

(* C28: whatever max_retries is, a finished call of _with_retry has invoked *)
(* the operation at least once and ends with what the last invocation did:  *)
(* the response it returned or the error it raised.                         *)
C28_EndsWithOperationOutcome ==
    rpc = "done" =>
        /\ Len(outcomes) >= 1
        /\ rret = outcomes[Len(outcomes)]


-----------------------------------------------------------------------------
(* Caller p executes the operation in this step and it succeeds.            *)
ExecutesOperation(p) ==
    /\ ipc[p] = "operation"
    /\ ipc'[p] = "store"
    /\ iresp'[p][1].success

(* Caller q has executed the operation with success in its call in progress *)
(* and has not yet stored the response.                                     *)
HoldsFreshResponse(q) == ipc[q] = "store" /\ iresp[q] # None /\ iresp[q][1].success

(* C27: for every interleaving of concurrent calls of _with_idempotency     *)
(* with one key on a shared cache, the operation is executed at most once:  *)
(* no caller executes it while another caller of the same key holds the     *)
(* successful response of its own execution (the two callers would then     *)
(* receive the responses of two executions).                                *)
C27_OperationExecutedOnce ==
    [][\A p \in Callers : ExecutesOperation(p) =>
          \A q \in Callers \ {p} : ikey[q] = ikey[p] => ~HoldsFreshResponse(q)]_vars


-----------------------------------------------------------------------------
(* The dispatch in progress was called with an event whose propagation was  *)
(* already stopped: the flag is set and no handler has been invoked (only a *)
(* handler sets the flag during a dispatch, and its invocation is logged).  *)
StoppedBeforeDispatch == pc \in {"loop", "done"} /\ event.stopped /\ calls = <<>>

(* C29: a dispatch of an event whose propagation is already stopped invokes *)
(* no handler and returns no_handler, whatever handlers are registered; the *)
(* dispatcher keeps no trace of it: in a dispatch of an event that is not   *)
(* stopped (a fresh event of the same name) every step of the loop invokes  *)
(* the next registered handler.                                             *)
C29_StoppedEventRunsNoHandler ==
    /\ [][(pc = "idle" /\ pc' # "idle" /\ event'.stopped) =>
             /\ calls' = <<>>
             /\ (pc' = "loop" \/ ret' = Return(no_handler))]_vars
    /\ [][(pc = "loop" /\ StoppedBeforeDispatch) =>
             /\ calls' = <<>>
             /\ pc' = "done"
             /\ ret' = Return(no_handler)]_vars
    /\ []((pc = "done" /\ StoppedBeforeDispatch) => ret = Return(no_handler))
    /\ [][(InLoop /\ ~event.stopped) =>
             /\ Len(calls') > Len(calls)
             /\ calls'[Len(calls) + 1].h = Current
             /\ calls'[Len(calls) + 1].op = "can_handle"]_vars

C29_Witness ==
    /\ pc = "done"
    /\ event.stopped
    /\ calls = <<>>
    /\ ret = Return(no_handler)
    /\ has_handlers(event.name)
    /\ \E i \in 1..Len(handlers[event.name]) :
          get_handled_event_class(handlers[event.name][i][2]) = event.name


-----------------------------------------------------------------------------
(* The event emitted is of the class and name of the event dispatched.      *)
SameEvent == DOMAIN eevent = DOMAIN event /\ eevent.name = event.name

EqualPriorities(name) ==
    \A g, h \in RegisteredFor(name) : get_priority(g) = get_priority(h)

(* No handler invoked by either call stops the propagation.                 *)
NoHandlerStops ==
    \A h \in DOMAIN behaviour :
        behaviour[h].kind \in {"return", "raise"} => ~behaviour[h].stop

(* C30: with the same handlers registered in the same order with both       *)
(* dispatchers for the event's name, all of one priority, and no handler    *)
(* stopping the propagation, emit and dispatch of the same event invoke the *)
(* same handler methods in the same order and end with equal outcomes.      *)
C30_EmitEqualsDispatch ==
    (pc = "done" /\ epc = "done" /\ SameEvent /\ EqualPriorities(event.name) /\ NoHandlerStops)
        => (ecalls = calls /\ eret = ret)


-----------------------------------------------------------------------------
InBody == {p \in Lockers : lpc[p] = "body"}

(* C21: the body of `with redis_client.lock(key)` is a critical section:    *)
(* whatever the interleaving, also when an acquisition fails or the key     *)
(* expires under its holder, at most one process is inside the body.        *)
C21_BodyIsCriticalSection == Cardinality(InBody) <= 1

(* Process p leaves the finally clause in this step.                        *)
LeavesFinally(p) == lpc[p] = "finally" /\ lpc'[p] = "done"

(* C22: RedisClient.lock is a scoped acquisition.  A call that acquired the *)
(* lock releases it when the block is left, by return or by exception: the  *)
(* key is deleted if it still holds the call's token, and a release that    *)
(* finds the key expired or taken over is tolerated; a call that did not    *)
(* acquire attempts no release; in both cases the with-statement ends as    *)
(* its body did.  A busy lock makes the call yield False, and with          *)
(* blocking_timeout = 0 it does so without ever sleeping.                   *)
C22_ScopedAcquisition ==
    /\ [][\A p \in Lockers : LeavesFinally(p) =>
             /\ lret'[p] = lbody[p]
             /\ IF acquired[p]
                THEN /\ lrelease'[p] \in {"released", "LockNotOwnedError"}
                     /\ (lkey = ltoken[p]) => (lkey' = None /\ lrelease'[p] = "released")
                     /\ (lkey # ltoken[p]) => (lkey' = lkey)
                ELSE /\ lrelease'[p] = "none"
                     /\ lkey' = lkey]_vars
    /\ [][\A p \in Lockers : (lpc[p] = "acquire" /\ lpc'[p] = "body" /\ lkey # None) =>
             (lyield'[p] = Some(FALSE) /\ ~acquired'[p] /\ lkey' = lkey)]_vars
    /\ [](\A p \in Lockers : (lpc[p] # "idle" /\ lbt[p] = 0) => ~lwaited[p])
    /\ [](\A p \in Lockers : lpc[p] \in {"done", "idle"} => (lkey = None \/ lkey[1][1] # p))
    /\ [](\A p \in Lockers : lpc[p] = "body" => lyield[p] = Some(acquired[p]))

C22_Witness ==
    \E p, q \in Lockers :
        /\ lpc[p] = "done"
        /\ acquired[p]
        /\ lrelease[p] = "LockNotOwnedError"
        /\ lret[p].kind = "raise"
        /\ lpc[q] = "done"
        /\ lbt[q] = 0
        /\ lyield[q] = Some(FALSE)
        /\ lrelease[q] = "none"


-----------------------------------------------------------------------------
(* Writer w's save with an expected version has succeeded.                  *)
SaveSucceeded(w) ==
    /\ svpc[w] = "done"
    /\ expected[w] # None
    /\ svret[w].kind = "return"

(* C23: save rejects stale writes: of two writers that save with the same   *)
(* expected version, in any interleaving at most one succeeds.              *)
C23_AtMostOneWriterSucceeds ==
    \A v, w \in Writers :
        (v # w /\ SaveSucceeded(v) /\ SaveSucceeded(w)) => expected[v] # expected[w]


-----------------------------------------------------------------------------
IsValueError(out) == out.kind = "raise" /\ out.exc.cls = "ValueError"

(* The last operation changed nothing and emitted nothing.                  *)
Refused == IsValueError(plog.out) /\ pstatus = plog.before /\ ~plog.hook /\ plog.emitted = None

(* C24: the plugin status follows a guarded lifecycle.  enable_plugin ends  *)
(* normally only on a plugin that was INITIALIZED, which is ENABLED         *)
(* afterwards, and disable_plugin only on a plugin that was ENABLED, which  *)
(* is DISABLED afterwards; on a plugin in any other status they raise       *)
(* ValueError, leave every status as it was, do not run on_enable or        *)
(* on_disable and emit no plugin.enabled or plugin.disabled event.  No      *)
(* other operation makes a plugin ENABLED or DISABLED.                      *)
C24_GuardedLifecycle ==
    /\ plog.op = "enable_plugin" =>
          /\ plog.out.kind = "return" =>
                /\ plog.before[plog.name] = INITIALIZED
                /\ pstatus = [plog.before EXCEPT ![plog.name] = ENABLED_STATUS]
                /\ plog.hook
                /\ plog.emitted = Some("plugin.enabled")
          /\ plog.before[plog.name] # INITIALIZED => Refused
          /\ plog.out.kind = "raise" => (pstatus = plog.before /\ plog.emitted = None)
    /\ plog.op = "disable_plugin" =>
          /\ plog.out.kind = "return" =>
                /\ plog.before[plog.name] = ENABLED_STATUS
                /\ pstatus = [plog.before EXCEPT ![plog.name] = DISABLED]
                /\ plog.hook
                /\ plog.emitted = Some("plugin.disabled")
          /\ plog.before[plog.name] # ENABLED_STATUS => Refused
          /\ plog.out.kind = "raise" => (pstatus = plog.before /\ plog.emitted = None)
    /\ \A p \in PluginNames :
          /\ (pstatus[p] = ENABLED_STATUS /\ plog.before[p] # ENABLED_STATUS) =>
                (plog.op = "enable_plugin" /\ plog.name = p /\ plog.out.kind = "return")
          /\ (pstatus[p] = DISABLED /\ plog.before[p] # DISABLED) =>
                (plog.op = "disable_plugin" /\ plog.name = p /\ plog.out.kind = "return")
    /\ plog.op \notin {"enable_plugin", "disable_plugin"} =>
          plog.emitted \notin {Some("plugin.enabled"), Some("plugin.disabled")}

C24_Witness ==
    /\ plog.op = "enable_plugin"
    /\ plog.name \in plugins
    /\ UnmetDependencies(plog.name) = {}
    /\ plog.before[plog.name] = DISABLED
    /\ pstatus[plog.name] = DISABLED
    /\ IsValueError(plog.out)
    /\ ~plog.hook
    /\ plog.emitted = None

(* C25: after any sequence of PluginManager operations every plugin that is *)
(* ENABLED has all its declared dependencies registered and ENABLED.        *)
C25_EnabledDependencies ==
    \A p \in plugins :
        pstatus[p] = ENABLED_STATUS =>
            \A i \in 1..Len(Dependencies(p)) :
                /\ Dependencies(p)[i] \in plugins
                /\ pstatus[Dependencies(p)[i]] = ENABLED_STATUS

====
